---- MODULE Spec2Model ----
(***************************************************************************)
(* Anchor code graph subsystem: the graph engine (src/graph/engine.rs),    *)
(* its mutation layer (src/graph/mutation.rs), its queries                 *)
(* (src/graph/query.rs), the lock manager (src/lock/manager.rs) and the    *)
(* write flows of the daemon (src/daemon/server.rs) and of the write tool  *)
(* (src/mcp/tools.rs).                                                     *)
(*                                                                         *)
(* Node ids are 1-based positions in the node table (petgraph NodeIndex    *)
(* plus one); 0 stands for Option::None.  Edge ids are 1-based positions   *)
(* in the edge table; petgraph's Graph::remove_edge is a swap_remove, so   *)
(* the last edge adopts the id of the removed one.                         *)
(***************************************************************************)
EXTENDS Integers, Sequences, FiniteSets, TLC

VARIABLES
    g,          \* the CodeGraph: nodes, edges, file_index, symbol_index, qualified_index
    prev,       \* the CodeGraph before the last mutation
    last,       \* the last mutation and its arguments
    locks,      \* LockManager.locks: SymbolKey -> primary SymbolKey (NoKey when absent)
    rw,         \* the server's RwLock<CodeGraph>: the requests holding a read guard
    req,        \* per client request: position, kind, arguments, locals
    disk,       \* per file: the source on disk
    hist,       \* who inserted each lock entry, the cone of each primary, the last pass
    ops         \* number of operations applied so far

vars == <<g, prev, last, locks, rw, req, disk, hist, ops>>

None == 0

(***************************************************************************)
(* Small universes the inputs are drawn from.                              *)
(***************************************************************************)
Files == {"a.rs", "b.rs"}
Names == {"foo", "bar"}
ImportPaths == {"std::io"}
\* a name only the lock manager's graph defines: a caller of a caller
ChainNames == {"baz"}
AllNames == Names \cup ImportPaths \cup ChainNames
Bodies == {"v1", "v2"}
MaxItems == 2
MaxOps == 3

SymKinds == {"Function", "Class"}
EdgeKinds == {"Defines", "Imports", "Calls", "Contains", "ApiCall"}

(***************************************************************************)
(* Sequence helpers.                                                       *)
(***************************************************************************)
Range(s) == {s[i] : i \in DOMAIN s}

SeqContains(s, x) == \E i \in DOMAIN s : s[i] = x

RECURSIVE FoldSeq(_, _, _)
FoldSeq(Op(_, _), acc, s) ==
    IF s = <<>> THEN acc ELSE FoldSeq(Op, Op(acc, Head(s)), Tail(s))

RECURSIVE SeqFilter(_, _)
SeqFilter(Test(_), s) ==
    IF s = <<>> THEN <<>>
    ELSE IF Test(Head(s)) THEN <<Head(s)>> \o SeqFilter(Test, Tail(s))
         ELSE SeqFilter(Test, Tail(s))

RECURSIVE SetToSeq(_)
SetToSeq(S) ==
    IF S = {} THEN <<>>
    ELSE LET x == CHOOSE y \in S : TRUE IN <<x>> \o SetToSeq(S \ {x})

RECURSIVE SeqRetain(_, _)
SeqRetain(s, x) ==
    IF s = <<>> THEN <<>>
    ELSE IF Head(s) = x THEN SeqRetain(Tail(s), x)
         ELSE <<Head(s)>> \o SeqRetain(Tail(s), x)

RECURSIVE Dedup(_)
Dedup(s) ==
    IF Len(s) <= 1 THEN s
    ELSE IF s[1] = s[2] THEN Dedup(Tail(s))
         ELSE <<s[1]>> \o Dedup(Tail(s))

SortLines(s) == SortSeq(s, LAMBDA x, y : x < y)

swap_remove(s, i) ==
    IF i = Len(s) THEN SubSeq(s, 1, Len(s) - 1)
    ELSE SubSeq([s EXCEPT ![i] = s[Len(s)]], 1, Len(s) - 1)

(***************************************************************************)
(* Graph engine (engine.rs).                                               *)
(***************************************************************************)
EmptyGraph ==
    [nodes |-> <<>>,
     edges |-> <<>>,
     file_index |-> [f \in Files |-> None],
     symbol_index |-> [n \in AllNames |-> <<>>],
     qualified_index |-> [k \in Files \X AllNames |-> None]]

new_file(path) ==
    [kind |-> "File", removed |-> FALSE, name |-> path, file_path |-> path,
     line_start |-> 0, line_end |-> 0, code_snippet |-> "", call_lines |-> <<>>]

new_symbol(name, kind, file_path, line_start, line_end, code_snippet) ==
    [kind |-> kind, removed |-> FALSE, name |-> name, file_path |-> file_path,
     line_start |-> line_start, line_end |-> line_end,
     code_snippet |-> code_snippet, call_lines |-> <<>>]

is_live(G, idx) == idx \in 1..Len(G.nodes) /\ ~G.nodes[idx].removed

\* add_file returns the graph; the id it returns is file_index[path] of the result
add_file(G, path) ==
    IF G.file_index[path] # None
    THEN [G EXCEPT !.nodes[G.file_index[path]].removed = FALSE]
    ELSE [G EXCEPT !.nodes = Append(@, new_file(path)),
                   !.file_index[path] = Len(G.nodes) + 1]

\* add_symbol returns the graph; the id it returns is Len(nodes) of the result
add_symbol(G, name, kind, file_path, line_start, line_end, code_snippet) ==
    [G EXCEPT !.nodes = Append(@, new_symbol(name, kind, file_path, line_start,
                                             line_end, code_snippet)),
              !.symbol_index[name] = Append(@, Len(G.nodes) + 1),
              !.qualified_index[<<file_path, name>>] = Len(G.nodes) + 1]

\* born orders the edges of one node as petgraph's adjacency lists do:
\* add_edge links the new edge at the head of both lists
NextBorn(G) ==
    IF G.edges = <<>> THEN 1
    ELSE 1 + CHOOSE b \in {G.edges[i].born : i \in DOMAIN G.edges} :
                 \A i \in DOMAIN G.edges : G.edges[i].born <= b

add_edge(G, from, to, kind) ==
    [G EXCEPT !.edges = Append(@, [source |-> from, target |-> to, kind |-> kind,
                                   born |-> NextBorn(G)])]

remove_edge(G, e) ==
    IF e \in 1..Len(G.edges) THEN [G EXCEPT !.edges = swap_remove(@, e)] ELSE G

RECURSIVE ByBornDesc(_, _)
ByBornDesc(G, S) ==
    IF S = {} THEN <<>>
    ELSE LET e == CHOOSE x \in S : \A y \in S : G.edges[y].born <= G.edges[x].born
         IN  <<e>> \o ByBornDesc(G, S \ {e})

\* edge ids of the node's outgoing (or incoming) list, newest first
edges_directed(G, n, dir) ==
    ByBornDesc(G, {e \in DOMAIN G.edges :
                      IF dir = "Outgoing" THEN G.edges[e].source = n
                                          ELSE G.edges[e].target = n})

\* the adjacency order depends on the relative age of the edges only
NormalizeBorn(G) ==
    [G EXCEPT !.edges =
        [i \in DOMAIN G.edges |->
            [G.edges[i] EXCEPT !.born =
                Cardinality({j \in DOMAIN G.edges : G.edges[j].born <= G.edges[i].born})]]]

(***************************************************************************)
(* Mutation layer (mutation.rs).                                           *)
(***************************************************************************)
\* soft_delete_node without the index cleanup
soft_delete_node_keeps_indexes(G, node_idx) ==
    IF node_idx \in 1..Len(G.nodes)
    THEN [G EXCEPT !.nodes[node_idx].removed = TRUE]
    ELSE G

soft_delete_node(G, node_idx) ==
    IF node_idx \in 1..Len(G.nodes)
    THEN LET name == G.nodes[node_idx].name
             file_path == G.nodes[node_idx].file_path
         IN  [G EXCEPT !.nodes[node_idx].removed = TRUE,
                       !.symbol_index =
                           IF name \in DOMAIN @
                           THEN [@ EXCEPT ![name] = SeqRetain(@, node_idx)]
                           ELSE @,
                       !.qualified_index =
                           IF <<file_path, name>> \in DOMAIN @
                           THEN [@ EXCEPT ![<<file_path, name>>] = None]
                           ELSE @]
    ELSE G

\* the lines line..=line_end not yet in call_lines, pushed in order
RECURSIVE PushLines(_, _, _)
PushLines(lines, line, line_end) ==
    IF line > line_end THEN lines
    ELSE PushLines(IF SeqContains(lines, line) THEN lines ELSE Append(lines, line),
                   line + 1, line_end)

resolve_call(G, caller_idx, call) ==
    IF G.symbol_index[call.callee] # <<>>
    THEN LET callee_idx == Head(G.symbol_index[call.callee])
             G1 == add_edge(G, caller_idx, callee_idx, "Calls")
         IN  [G1 EXCEPT !.nodes[caller_idx].call_lines =
                            PushLines(@, call.line, call.line_end)]
    ELSE G

finalize_call_lines(G, nodes) ==
    [G EXCEPT !.nodes =
        [i \in DOMAIN G.nodes |->
            IF i \in nodes
            THEN [G.nodes[i] EXCEPT !.call_lines = Dedup(SortLines(@))]
            ELSE G.nodes[i]]]

\* filter = {} with use_filter FALSE stands for Option::None
resolve_contains(G, file, symbols, use_filter, filter) ==
    LET Step(acc, symbol) ==
            IF symbol.parent = "" THEN acc
            ELSE LET child_idx == acc.qualified_index[<<file, symbol.name>>]
                     parent_idx == acc.qualified_index[<<file, symbol.parent>>]
                 IN  IF child_idx = None THEN acc
                     ELSE IF use_filter /\ child_idx \notin filter THEN acc
                     ELSE IF parent_idx = None THEN acc
                     ELSE add_edge(acc, parent_idx, child_idx, "Contains")
    IN  FoldSeq(Step, G, symbols)

\* the id ingest_symbol returns is Len(nodes) of the result
ingest_symbol(G, file_idx, file_path, sym) ==
    LET G1 == add_symbol(G, sym.name, sym.kind, file_path, sym.line_start,
                         sym.line_end, sym.code_snippet)
    IN  add_edge(G1, file_idx, Len(G1.nodes), "Defines")

ingest_imports(G, file_idx, file_path, imports) ==
    LET Step(acc, import) ==
            LET G1 == add_symbol(acc, import.path, "Import", file_path,
                                 import.line, import.line, "")
            IN  add_edge(G1, file_idx, Len(G1.nodes), "Imports")
    IN  FoldSeq(Step, G, imports)

(***************************************************************************)
(* normalize_api_url on a URL given as a sequence of characters.           *)
(***************************************************************************)
to_lowercase(c) == IF c = "U" THEN "u" ELSE IF c = "X" THEN "x" ELSE c

RECURSIVE trim_end_slashes(_)
trim_end_slashes(u) ==
    IF u # <<>> /\ u[Len(u)] = "/" THEN trim_end_slashes(SubSeq(u, 1, Len(u) - 1))
    ELSE u

Param == <<":", "p", "a", "r", "a", "m">>

\* drop characters up to and including the first close (all of them if none)
RECURSIVE SkipThrough(_, _)
SkipThrough(rest, close) ==
    IF rest = <<>> THEN <<>>
    ELSE IF Head(rest) = close THEN Tail(rest)
    ELSE SkipThrough(Tail(rest), close)

\* drop characters up to, not including, the first "/"
RECURSIVE SkipUntilSlash(_)
SkipUntilSlash(rest) ==
    IF rest = <<>> THEN <<>>
    ELSE IF Head(rest) = "/" THEN rest
    ELSE SkipUntilSlash(Tail(rest))

RECURSIVE NormalizeLoop(_, _)
NormalizeLoop(rest, result) ==
    IF rest = <<>> THEN result
    ELSE LET c == Head(rest) IN
         IF c = "{" \/ c = "<"
         THEN NormalizeLoop(SkipThrough(Tail(rest), IF c = "{" THEN "}" ELSE ">"),
                            result \o Param)
         ELSE IF c = ":" /\ result # <<>> /\ result[Len(result)] = "/"
         THEN NormalizeLoop(SkipUntilSlash(Tail(rest)), result \o Param)
         ELSE NormalizeLoop(Tail(rest), Append(result, c))

normalize_api_url(url) ==
    NormalizeLoop(trim_end_slashes([i \in DOMAIN url |-> to_lowercase(url[i])]), <<>>)

(***************************************************************************)
(* build_from_extractions.                                                 *)
(***************************************************************************)
BuildPhase1(G, extractions) ==
    LET Step(acc, extraction) ==
            LET G1 == add_file(acc, extraction.file_path)
                file_idx == G1.file_index[extraction.file_path]
                Sym(a, symbol) == ingest_symbol(a, file_idx, extraction.file_path, symbol)
                G2 == FoldSeq(Sym, G1, extraction.symbols)
            IN  ingest_imports(G2, file_idx, extraction.file_path, extraction.imports)
    IN  FoldSeq(Step, G, extractions)

BuildPhase2(G, extractions) ==
    LET Step(acc, extraction) ==
            LET Call(a, call) ==
                    LET caller_idx == a.qualified_index[<<extraction.file_path, call.caller>>]
                    IN  IF caller_idx # None THEN resolve_call(a, caller_idx, call) ELSE a
            IN  FoldSeq(Call, acc, extraction.calls)
    IN  FoldSeq(Step, G, extractions)

BuildPhase3(G, extractions) ==
    LET Step(acc, extraction) ==
            resolve_contains(acc, extraction.file_path, extraction.symbols, FALSE, {})
    IN  FoldSeq(Step, G, extractions)

\* the (url, scope node) pairs of one role, in extraction order
Endpoints(G, extractions, role) ==
    LET Step(acc, extraction) ==
            LET Ep(a, endpoint) ==
                    LET scope_idx ==
                            IF endpoint.scope = "" THEN None
                            ELSE G.qualified_index[<<extraction.file_path, endpoint.scope>>]
                    IN  IF scope_idx # None /\ endpoint.kind = role
                        THEN Append(a, [url |-> normalize_api_url(endpoint.url),
                                        idx |-> scope_idx])
                        ELSE a
            IN  FoldSeq(Ep, acc, extraction.api_endpoints)
    IN  FoldSeq(Step, <<>>, extractions)

BuildPhase4(G, extractions) ==
    LET defines == Endpoints(G, extractions, "Defines")
        consumes == Endpoints(G, extractions, "Consumes")
        Consumer(acc, c) ==
            LET Provider(a, d) ==
                    IF d.url = c.url THEN add_edge(a, c.idx, d.idx, "ApiCall") ELSE a
            IN  FoldSeq(Provider, acc, defines)
    IN  FoldSeq(Consumer, G, consumes)

build_from_extractions(G, extractions) ==
    LET G1 == BuildPhase1(G, extractions)
        G2 == BuildPhase2(G1, extractions)
        G3 == finalize_call_lines(G2, DOMAIN G2.nodes)
        G4 == BuildPhase3(G3, extractions)
    IN  BuildPhase4(G4, extractions)

symbols_in_file(G, path) ==
    LET file_idx == G.file_index[path]
        IsDef(e) == G.edges[e].kind = "Defines" /\ is_live(G, G.edges[e].target)
    IN  IF file_idx = None \/ ~is_live(G, file_idx) THEN <<>>
        ELSE [i \in DOMAIN SeqFilter(IsDef, edges_directed(G, file_idx, "Outgoing")) |->
                 G.edges[SeqFilter(IsDef, edges_directed(G, file_idx, "Outgoing"))[i]].target]

symbols_in_range(G, file, start, end) ==
    LET InRange(n) == G.nodes[n].line_start <= end /\ G.nodes[n].line_end >= start
    IN  SeqFilter(InRange, symbols_in_file(G, file))

(***************************************************************************)
(* update_file_incremental.  order is the iteration order of the HashMap   *)
(* new_symbols (a sequence of its keys); the map is iterated twice, in the *)
(* same order both times.                                                  *)
(***************************************************************************)
\* old_symbols: name -> node id, 0 when absent.  The Defines list is walked
\* newest first and collect() keeps the last entry of a name.
old_symbols_of(G, file_idx) ==
    LET IsOld(e) == /\ G.edges[e].kind = "Defines"
                    /\ is_live(G, G.edges[e].target)
                    /\ G.nodes[G.edges[e].target].kind # "Import"
        defs == SeqFilter(IsOld, edges_directed(G, file_idx, "Outgoing"))
        Step(acc, e) == [acc EXCEPT ![G.nodes[G.edges[e].target].name] = G.edges[e].target]
    IN  FoldSeq(Step, [n \in AllNames |-> None], defs)

\* new_symbols: name -> position in symbols of the last symbol of that name
new_symbols_of(symbols) ==
    [n \in AllNames |->
        IF \E i \in DOMAIN symbols : symbols[i].name = n
        THEN CHOOSE i \in DOMAIN symbols :
                 /\ symbols[i].name = n
                 /\ \A j \in DOMAIN symbols : symbols[j].name = n => j <= i
        ELSE None]

UpdRemoved(G, old, new) ==
    LET Step(acc, name) ==
            IF old[name] # None /\ new[name] = None
            THEN soft_delete_node(acc, old[name]) ELSE acc
    IN  FoldSeq(Step, G, SetToSeq(AllNames))

\* state threaded through the loops: the graph and needs_call_resolution
UpdAdded(st, file_idx, file, symbols, old, new, order) ==
    LET Step(acc, name) ==
            IF new[name] # None /\ old[name] = None
            THEN LET G1 == ingest_symbol(acc.G, file_idx, file, symbols[new[name]])
                 IN  [G |-> G1, needs |-> acc.needs \cup {Len(G1.nodes)}]
            ELSE acc
    IN  FoldSeq(Step, st, order)

\* remove the collected edge ids one after the other
remove_edges(G, eids) ==
    LET Step(acc, eid) == remove_edge(acc, eid) IN FoldSeq(Step, G, eids)

outgoing_calls(G, node_idx) ==
    LET IsCall(e) == G.edges[e].kind = "Calls"
    IN  SeqFilter(IsCall, edges_directed(G, node_idx, "Outgoing"))

UpdChanged(st, G0, symbols, old, new, order) ==
    LET Step(acc, name) ==
            IF new[name] # None /\ old[name] # None
            THEN LET sym == symbols[new[name]]
                     node_idx == old[name]
                     old_code == G0.nodes[node_idx].code_snippet
                 IN  IF old_code # sym.code_snippet
                     THEN LET G1 == [acc.G EXCEPT
                                        !.nodes[node_idx].code_snippet = sym.code_snippet,
                                        !.nodes[node_idx].line_start = sym.line_start,
                                        !.nodes[node_idx].line_end = sym.line_end,
                                        !.nodes[node_idx].call_lines = <<>>]
                          IN  [G |-> remove_edges(G1, outgoing_calls(G1, node_idx)),
                               needs |-> acc.needs \cup {node_idx}]
                     ELSE [acc EXCEPT !.G.nodes[node_idx].line_start = sym.line_start,
                                      !.G.nodes[node_idx].line_end = sym.line_end]
            ELSE acc
    IN  FoldSeq(Step, st, order)

UpdImports(G, file_idx, file, imports) ==
    LET IsImp(e) == G.edges[e].kind = "Imports" /\ is_live(G, G.edges[e].target)
        old_import_edges == SeqFilter(IsImp, edges_directed(G, file_idx, "Outgoing"))
        Del(acc, e) == soft_delete_node(acc, G.edges[e].target)
    IN  ingest_imports(FoldSeq(Del, G, old_import_edges), file_idx, file, imports)

UpdCalls(G, file, calls, needs) ==
    LET Step(acc, call) ==
            LET caller_idx == acc.qualified_index[<<file, call.caller>>]
            IN  IF caller_idx # None /\ caller_idx \in needs
                THEN resolve_call(acc, caller_idx, call) ELSE acc
    IN  FoldSeq(Step, G, calls)

\* the ApiCall edge ids collected for removal: per live defined symbol its
\* outgoing and then its incoming ApiCall edges
api_edges_to_remove(G, file_idx) ==
    LET IsDef(e) == G.edges[e].kind = "Defines" /\ is_live(G, G.edges[e].target)
        IsApi(e) == G.edges[e].kind = "ApiCall"
        Step(acc, e) ==
            acc \o SeqFilter(IsApi, edges_directed(G, G.edges[e].target, "Outgoing"))
                \o SeqFilter(IsApi, edges_directed(G, G.edges[e].target, "Incoming"))
    IN  FoldSeq(Step, <<>>, SeqFilter(IsDef, edges_directed(G, file_idx, "Outgoing")))

update_file_incremental(G, file, new_extraction, order) ==
    LET G1 == add_file(G, file)
        file_idx == G1.file_index[file]
        old == old_symbols_of(G1, file_idx)
        new == new_symbols_of(new_extraction.symbols)
        G2 == UpdRemoved(G1, old, new)
        s3 == UpdAdded([G |-> G2, needs |-> {}], file_idx, file,
                       new_extraction.symbols, old, new, order)
        s4 == UpdChanged(s3, G1, new_extraction.symbols, old, new, order)
        G5 == UpdImports(s4.G, file_idx, file, new_extraction.imports)
        G6 == UpdCalls(G5, file, new_extraction.calls, s4.needs)
        G7 == finalize_call_lines(G6, s4.needs)
        G8 == resolve_contains(G7, file, new_extraction.symbols, TRUE, s4.needs)
    IN  remove_edges(G8, api_edges_to_remove(G8, file_idx))

(***************************************************************************)
(* remove_file and compact.                                                *)
(***************************************************************************)
remove_file(G, path) ==
    IF G.file_index[path] # None
    THEN LET file_idx == G.file_index[path]
             child_edges == edges_directed(G, file_idx, "Outgoing")
             Del(acc, e) == soft_delete_node(acc, G.edges[e].target)
             G1 == FoldSeq(Del, G, child_edges)
         IN  [G1 EXCEPT !.nodes[file_idx].removed = TRUE,
                        !.file_index[path] = None]
    ELSE G

\* file_order is the iteration order of the HashMap live_files
\* compact that copies the soft-deleted nodes too
compact_keeps_removed(G, file_order) ==
    LET AddF(acc, path) == add_file(acc, path)
        N0 == FoldSeq(AddF, EmptyGraph, file_order)
        Copy(acc, idx) ==
            LET node == G.nodes[idx] IN
            IF node.kind = "File"
            THEN IF acc.N.file_index[node.file_path] # None
                 THEN [acc EXCEPT !.map[idx] = acc.N.file_index[node.file_path]]
                 ELSE acc
            ELSE LET new_idx == Len(acc.N.nodes) + 1
                 IN  [N |-> [acc.N EXCEPT !.nodes = Append(@, node)],
                      map |-> [acc.map EXCEPT ![idx] = new_idx]]
        s1 == FoldSeq(Copy, [N |-> N0, map |-> [i \in DOMAIN G.nodes |-> None]],
                      [i \in DOMAIN G.nodes |-> i])
        Edge(acc, e) ==
            IF s1.map[G.edges[e].source] # None /\ s1.map[G.edges[e].target] # None
            THEN add_edge(acc, s1.map[G.edges[e].source], s1.map[G.edges[e].target],
                          G.edges[e].kind)
            ELSE acc
    IN  FoldSeq(Edge, s1.N, [e \in DOMAIN G.edges |-> e])

compact(G, file_order) ==
    LET AddF(acc, path) == add_file(acc, path)
        N0 == FoldSeq(AddF, EmptyGraph, file_order)
        Copy(acc, idx) ==
            LET node == G.nodes[idx] IN
            IF node.removed THEN acc
            ELSE IF node.kind = "File"
            THEN IF acc.N.file_index[node.file_path] # None
                 THEN [acc EXCEPT !.map[idx] = acc.N.file_index[node.file_path]]
                 ELSE acc
            ELSE LET N1 == add_symbol(acc.N, node.name, node.kind, node.file_path,
                                      node.line_start, node.line_end, node.code_snippet)
                     new_idx == Len(N1.nodes)
                 IN  [N |-> [N1 EXCEPT !.nodes[new_idx].call_lines = node.call_lines],
                      map |-> [acc.map EXCEPT ![idx] = new_idx]]
        s1 == FoldSeq(Copy, [N |-> N0, map |-> [i \in DOMAIN G.nodes |-> None]],
                      [i \in DOMAIN G.nodes |-> i])
        Edge(acc, e) ==
            IF s1.map[G.edges[e].source] # None /\ s1.map[G.edges[e].target] # None
            THEN add_edge(acc, s1.map[G.edges[e].source], s1.map[G.edges[e].target],
                          G.edges[e].kind)
            ELSE acc
    IN  FoldSeq(Edge, s1.N, [e \in DOMAIN G.edges |-> e])

live_files(G) ==
    {G.nodes[i].file_path : i \in {j \in DOMAIN G.nodes :
                                      ~G.nodes[j].removed /\ G.nodes[j].kind = "File"}}

(***************************************************************************)
(* Source files and their extraction (parser/extractor/tags.rs).  A file   *)
(* is an optional import line followed by function items of two lines      *)
(* each.  The snippet of a symbol is the text of its item, so its calls    *)
(* are a function of the snippet: body "v2" calls foo on its second line,  *)
(* body "v1" calls nothing.  With api set, the first item registers the    *)
(* route /u/ and the last item requests /U.                                *)
(***************************************************************************)
Items == [name : Names, body : Bodies]

ItemLists == UNION {[1..n -> Items] : n \in 0..MaxItems}

\* files without endpoints: an import line comes with at most one item
PlainSources ==
    {src \in [items : ItemLists, import : {0, 1}, api : {0}] :
        src.import = 1 => Len(src.items) <= 1}

\* files with a route and a request to it, in two functions
ApiSources ==
    {src \in [items : ItemLists, import : {0}, api : {1}] :
        Len(src.items) = 2 /\ src.items[1].name # src.items[2].name}

Sources == PlainSources \cup ApiSources

\* what a rewrite of a file may leave on disk: any plain source in a.rs, at
\* most one item and no import in b.rs
SmallSources == {src \in PlainSources : Len(src.items) <= 1 /\ src.import = 0}

SourcesOf(file) == IF file = "a.rs" THEN PlainSources ELSE SmallSources

CalleeOf(body) == IF body = "v2" THEN "foo" ELSE IF body = "v3" THEN "bar" ELSE ""

extract_file(path, src) ==
    LET start(i) == src.import + 2 * i - 1
        IsCaller(i) == CalleeOf(src.items[i].body) # ""
    IN  [file_path |-> path,
         symbols |-> [i \in DOMAIN src.items |->
                         [name |-> src.items[i].name, kind |-> "Function",
                          line_start |-> start(i), line_end |-> start(i) + 1,
                          code_snippet |-> src.items[i].body, parent |-> ""]],
         imports |-> IF src.import = 1 THEN <<[path |-> "std::io", line |-> 1]>>
                     ELSE <<>>,
         calls |-> [k \in DOMAIN SeqFilter(IsCaller, [i \in DOMAIN src.items |-> i]) |->
                      LET i == SeqFilter(IsCaller, [j \in DOMAIN src.items |-> j])[k]
                      IN  [caller |-> src.items[i].name,
                           callee |-> CalleeOf(src.items[i].body),
                           line |-> start(i) + 1, line_end |-> start(i) + 1]],
         api_endpoints |->
             IF src.api = 1 /\ src.items # <<>>
             THEN <<[url |-> <<"/", "u", "/">>, kind |-> "Defines",
                     scope |-> src.items[1].name],
                    [url |-> <<"/", "U">>, kind |-> "Consumes",
                     scope |-> src.items[Len(src.items)].name]>>
             ELSE <<>>]

\* the orders in which a HashMap keyed by the set S can be iterated
Orders(S) ==
    {o \in [1..Cardinality(S) -> S] : \A i, j \in DOMAIN o : i # j => o[i] # o[j]}

NamesOf(symbols) == {symbols[i].name : i \in DOMAIN symbols}

\* the lists of extractions a scan of the roots can hand to build_from_extractions
\* (one file, or two files of one function each, in either order)
BuildInputs ==
    {<<extract_file(f, src)>> : f \in Files, src \in Sources}
    \cup {<<extract_file(o[1], s1), extract_file(o[2], s2)>> :
             o \in Orders(Files),
             s1 \in {s \in SmallSources : Len(s.items) = 1},
             s2 \in {s \in SmallSources : Len(s.items) = 1}}

(***************************************************************************)
(* The graph under the mutation layer: build_graph on a new graph, then    *)
(* rebuild_file, remove_file and compact in any order.                     *)
(***************************************************************************)
NoKey == <<"", "">>
Idle == [locks |-> {}, rw |-> {}, req |-> {}, disk |-> {}, hist |-> {}]

GraphInit ==
    /\ g = EmptyGraph
    /\ prev = EmptyGraph
    /\ last = [op |-> "new"]
    /\ locks = Idle.locks
    /\ rw = Idle.rw
    /\ req = Idle.req
    /\ disk = Idle.disk
    /\ hist = Idle.hist
    /\ ops = 0

Mutate(G, what) ==
    /\ ops < MaxOps
    /\ ops' = ops + 1
    /\ g' = NormalizeBorn(G)
    /\ prev' = g
    /\ last' = what
    /\ UNCHANGED <<locks, rw, req, disk, hist>>

Build ==
    /\ g = EmptyGraph
    /\ \E extractions \in BuildInputs :
          Mutate(build_from_extractions(EmptyGraph, extractions),
                 [op |-> "build", extractions |-> extractions])

Update ==
    \E file \in Files :
       \E src \in SourcesOf(file) :
       LET E == extract_file(file, src) IN
       \E order \in Orders(NamesOf(E.symbols)) :
          Mutate(update_file_incremental(g, file, E, order),
                 [op |-> "update", file |-> file, extraction |-> E])

RemoveFile ==
    \E path \in Files :
       Mutate(remove_file(g, path), [op |-> "remove", file |-> path])

Compact ==
    \E file_order \in Orders(live_files(g)) :
       Mutate(compact(g, file_order), [op |-> "compact"])

GraphNext == Build \/ Update \/ RemoveFile \/ Compact

SpecGraph == GraphInit /\ [][GraphNext]_vars

(***************************************************************************)
(* Queries (query.rs).                                                     *)
(***************************************************************************)
MaxLimit == 3

Take(s, n) == SubSeq(s, 1, IF Len(s) < n THEN Len(s) ELSE n)

SymbolRef(G, n) ==
    [name |-> G.nodes[n].name, file |-> G.nodes[n].file_path, line |-> G.nodes[n].line_start]

\* <<>> stands for Option::None, <<r>> for Some(r)
build_search_result(G, idx) ==
    LET node == G.nodes[idx]
        IsCall(e) == G.edges[e].kind = "Calls" /\ is_live(G, G.edges[e].target)
        IsCalledBy(e) == G.edges[e].kind = "Calls" /\ is_live(G, G.edges[e].source)
        IsImport(e) == G.edges[e].kind = "Imports" /\ is_live(G, G.edges[e].target)
        calls == SeqFilter(IsCall, edges_directed(G, idx, "Outgoing"))
        called_by == SeqFilter(IsCalledBy, edges_directed(G, idx, "Incoming"))
        file_idx == G.file_index[node.file_path]
        imports == IF file_idx # None
                   THEN SeqFilter(IsImport, edges_directed(G, file_idx, "Outgoing"))
                   ELSE <<>>
    IN  IF node.kind = "File" \/ node.removed THEN <<>>
        ELSE <<[symbol |-> node.name, kind |-> node.kind, file |-> node.file_path,
                line_start |-> node.line_start, line_end |-> node.line_end,
                code |-> node.code_snippet, call_lines |-> node.call_lines,
                calls |-> [i \in DOMAIN calls |-> SymbolRef(G, G.edges[calls[i]].target)],
                called_by |-> [i \in DOMAIN called_by |->
                                  SymbolRef(G, G.edges[called_by[i]].source)],
                imports |-> [i \in DOMAIN imports |->
                                G.nodes[G.edges[imports[i]].target].name]]>>

\* name.to_lowercase().contains(query.to_lowercase()): no name of AllNames
\* is a proper substring of another, and all are lower case
NameContains(name, query) == name = query

search_results(G, indexes) ==
    LET Step(acc, idx) == acc \o build_search_result(G, idx)
    IN  FoldSeq(Step, <<>>, indexes)

\* every fuzzy match of a query of AllNames scores 0, so the stable sort by
\* score keeps the scan order
search(G, query, limit) ==
    LET exact == search_results(G, Take(G.symbol_index[query], limit))
        Scan(acc, name) ==
            LET Live(idx) == ~G.nodes[idx].removed
            IN  IF NameContains(name, query)
                THEN acc \o SeqFilter(Live, G.symbol_index[name]) ELSE acc
        scored == FoldSeq(Scan, <<>>, SetToSeq(AllNames))
    IN  IF exact # <<>> THEN exact ELSE search_results(G, Take(scored, limit))

DependencyInfo(G, n, kind) ==
    [symbol |-> G.nodes[n].name, kind |-> G.nodes[n].kind, file |-> G.nodes[n].file_path,
     line |-> G.nodes[n].line_start, relationship |-> kind]

dependents(G, symbol_name) ==
    LET Step(acc, idx) ==
            IF ~is_live(G, idx) THEN acc
            ELSE LET LiveSrc(e) == is_live(G, G.edges[e].source)
                     es == SeqFilter(LiveSrc, edges_directed(G, idx, "Incoming"))
                 IN  acc \o [i \in DOMAIN es |->
                                DependencyInfo(G, G.edges[es[i]].source, G.edges[es[i]].kind)]
    IN  FoldSeq(Step, <<>>, G.symbol_index[symbol_name])

dependencies(G, symbol_name) ==
    LET Step(acc, idx) ==
            IF ~is_live(G, idx) THEN acc
            ELSE LET LiveTgt(e) == is_live(G, G.edges[e].target)
                     es == SeqFilter(LiveTgt, edges_directed(G, idx, "Outgoing"))
                 IN  acc \o [i \in DOMAIN es |->
                                DependencyInfo(G, G.edges[es[i]].target, G.edges[es[i]].kind)]
    IN  FoldSeq(Step, <<>>, G.symbol_index[symbol_name])

find_qualified(G, file_path, name) ==
    LET idx == G.qualified_index[<<file_path, name>>]
    IN  IF idx = None \/ G.nodes[idx].removed THEN None ELSE idx

stats(G) ==
    LET file_count == Cardinality({i \in DOMAIN G.nodes :
                                      ~G.nodes[i].removed /\ G.nodes[i].kind = "File"})
        symbol_count == Cardinality({i \in DOMAIN G.nodes :
                                        ~G.nodes[i].removed /\ G.nodes[i].kind # "File"})
    IN  [total_nodes |-> file_count + symbol_count,
         total_edges |-> Len(G.edges),
         file_count |-> file_count,
         symbol_count |-> symbol_count,
         unique_symbol_names |-> Cardinality({n \in AllNames : G.symbol_index[n] # <<>>})]

(***************************************************************************)
(* Vocabulary of the graph claims.                                         *)
(***************************************************************************)
LiveNodes(G) == {i \in DOMAIN G.nodes : ~G.nodes[i].removed}

LiveSymbols(G) == {i \in LiveNodes(G) : G.nodes[i].kind # "File"}

\* number of edges from -> to of one kind
EdgeCount(G, from, to, kind) ==
    Cardinality({e \in DOMAIN G.edges :
                    /\ G.edges[e].source = from
                    /\ G.edges[e].target = to
                    /\ G.edges[e].kind = kind})

IncomingOfKind(G, n, kind) ==
    {e \in DOMAIN G.edges : G.edges[e].target = n /\ G.edges[e].kind = kind}

StrictlySorted(s) == \A i, j \in DOMAIN s : i < j => s[i] < s[j]

CallLinesOk(G, n) ==
    /\ StrictlySorted(G.nodes[n].call_lines)
    /\ \A i \in DOMAIN G.nodes[n].call_lines :
          /\ G.nodes[n].line_start <= G.nodes[n].call_lines[i]
          /\ G.nodes[n].call_lines[i] <= G.nodes[n].line_end

\* C6: after every mutation each live node's call_lines is sorted, free of
\* duplicates and within the node's current [line_start, line_end]
C6_CallLinesInRange == \A n \in LiveNodes(g) : CallLinesOk(g, n)

\* C9: every Calls edge and every ApiCall edge connects two live symbol nodes
C9_CallEdgesLive ==
    \A e \in DOMAIN g.edges :
       g.edges[e].kind \in {"Calls", "ApiCall"} =>
          /\ g.edges[e].source \in LiveSymbols(g)
          /\ g.edges[e].target \in LiveSymbols(g)

CallEdges(G) == {e \in DOMAIN G.edges : G.edges[e].kind \in {"Calls", "ApiCall"}}

\* an edge one of whose ends was soft-deleted
Stale(G, e) == G.nodes[G.edges[e].source].removed \/ G.nodes[G.edges[e].target].removed

\* C9, amended: every Calls edge and every ApiCall edge connects two symbol
\* nodes (never a File node); right after build_from_extractions on a new
\* graph and right after compact both ends are live, while after
\* update_file_incremental or remove_file an end may be a removed node
C9_CallEdgesLiveAfterRebuild ==
    \A e \in CallEdges(g) :
       /\ g.nodes[g.edges[e].source].kind # "File"
       /\ g.nodes[g.edges[e].target].kind # "File"
       /\ last.op \in {"build", "compact"} => ~Stale(g, e)

\* compact has dropped a call edge at a removed node and kept a live one
C9_Witness ==
    /\ last.op = "compact"
    /\ \E e \in CallEdges(prev) : Stale(prev, e)
    /\ CallEdges(g) # {}

HasOneDefines(G, n) ==
    /\ Cardinality(IncomingOfKind(G, n, "Defines")) = 1
    /\ \A e \in IncomingOfKind(G, n, "Defines") :
          /\ G.edges[e].source \in LiveNodes(G)
          /\ G.nodes[G.edges[e].source].kind = "File"
          /\ G.nodes[G.edges[e].source].file_path = G.nodes[n].file_path

\* C10: every live symbol node, whatever its kind, has exactly one incoming
\* Defines edge, from the live File node of its file path
C10_OneDefines == \A n \in LiveSymbols(g) : HasOneDefines(g, n)

\* C5: update_file_incremental(f, E) keeps, for every live symbol of f whose
\* name is in E with the same snippet, its node id, its snippet and every
\* Defines, Contains and Calls edge at it, and gives it the range of E
UnchangedIn(G, n, E) ==
    /\ n \in LiveSymbols(G)
    /\ G.nodes[n].file_path = E.file_path
    /\ \E i \in DOMAIN E.symbols :
          /\ E.symbols[i].name = G.nodes[n].name
          /\ E.symbols[i].code_snippet = G.nodes[n].code_snippet

\* the other end of a kept edge: a node the update does not rewrite, i.e.
\* anything but a changed or removed symbol of the updated file
Rewritten(G, m, E) ==
    /\ G.nodes[m].kind # "File"
    /\ G.nodes[m].file_path = E.file_path
    /\ ~UnchangedIn(G, m, E)

KeepsEdges(n) ==
    \A m \in DOMAIN prev.nodes : \A k \in {"Defines", "Contains", "Calls"} :
       ~Rewritten(prev, m, last.extraction) =>
          /\ EdgeCount(g, n, m, k) >= EdgeCount(prev, n, m, k)
          /\ EdgeCount(g, m, n, k) >= EdgeCount(prev, m, n, k)

C5_UnchangedPreserved ==
    last.op = "update" =>
       \A n \in DOMAIN prev.nodes :
          UnchangedIn(prev, n, last.extraction) =>
             /\ n \in LiveSymbols(g)
             /\ g.nodes[n].name = prev.nodes[n].name
             /\ g.nodes[n].code_snippet = prev.nodes[n].code_snippet
             /\ KeepsEdges(n)
             /\ \E i \in DOMAIN last.extraction.symbols :
                   /\ last.extraction.symbols[i].name = g.nodes[n].name
                   /\ last.extraction.symbols[i].code_snippet = g.nodes[n].code_snippet
                   /\ last.extraction.symbols[i].line_start = g.nodes[n].line_start
                   /\ last.extraction.symbols[i].line_end = g.nodes[n].line_end

(***************************************************************************)
(* One extraction ingested twice: g by build_from_extractions on a new     *)
(* graph, prev by add_file and update_file_incremental on a new graph.     *)
(***************************************************************************)
BagOf(s) == [x \in Range(s) |-> Cardinality({i \in DOMAIN s : s[i] = x})]

SearchBag(G, query) ==
    LET rs == search(G, query, MaxLimit)
    IN  BagOf([i \in DOMAIN rs |->
                  [rs[i] EXCEPT !.calls = BagOf(@), !.called_by = BagOf(@),
                                !.imports = BagOf(@)]])

SymbolsInFileBag(G, path) ==
    LET ns == symbols_in_file(G, path)
    IN  BagOf([i \in DOMAIN ns |-> G.nodes[ns[i]]])

Agree(G1, G2) ==
    /\ stats(G1) = stats(G2)
    /\ \A f \in Files : SymbolsInFileBag(G1, f) = SymbolsInFileBag(G2, f)
    /\ \A n \in AllNames :
          /\ SearchBag(G1, n) = SearchBag(G2, n)
          /\ BagOf(dependents(G1, n)) = BagOf(dependents(G2, n))
          /\ BagOf(dependencies(G1, n)) = BagOf(dependencies(G2, n))

EqBuild ==
    /\ last.op = "new"
    /\ \E file \in Files, src \in Sources :
          /\ g' = NormalizeBorn(build_from_extractions(EmptyGraph,
                                                       <<extract_file(file, src)>>))
          /\ last' = [op |-> "built", file |-> file,
                      extraction |-> extract_file(file, src)]
    /\ UNCHANGED <<prev, locks, rw, req, disk, hist, ops>>

EqIncremental ==
    /\ last.op = "built"
    /\ \E order \in Orders(NamesOf(last.extraction.symbols)) :
          prev' = NormalizeBorn(update_file_incremental(
                      add_file(EmptyGraph, last.file), last.file, last.extraction, order))
    /\ last' = [last EXCEPT !.op = "both"]
    /\ UNCHANGED <<g, locks, rw, req, disk, hist, ops>>

EquivNext == EqBuild \/ EqIncremental

SpecEquiv == GraphInit /\ [][EquivNext]_vars

\* C7: build_from_extractions({E}) and add_file(f); update_file_incremental(f, E)
\* agree on search, dependents, dependencies, symbols_in_file and stats
C7_BuildAgreesWithIncremental == last.op = "both" => Agree(g, prev)

(***************************************************************************)
(* The graph under its whole mutation interface: the engine primitives     *)
(* next to update_file_incremental, remove_file and compact.  add_edge     *)
(* takes the endpoints the EdgeKind of its argument is declared for.       *)
(***************************************************************************)
AddFile ==
    \E path \in Files :
       Mutate(add_file(g, path), [op |-> "add_file", file |-> path])

AddSymbol ==
    \E name \in Names, file_path \in Files :
       Mutate(add_symbol(g, name, "Function", file_path, 1, 2, "v1"),
              [op |-> "add_symbol", file |-> file_path, name |-> name])

AddEdge ==
    \E from \in DOMAIN g.nodes, to \in DOMAIN g.nodes, kind \in EdgeKinds :
       /\ g.nodes[to].kind # "File"
       /\ (g.nodes[from].kind = "File") = (kind \in {"Defines", "Imports"})
       /\ (kind = "Imports") = (g.nodes[to].kind = "Import")
       /\ Mutate(add_edge(g, from, to, kind),
                 [op |-> "add_edge", from |-> from, to |-> to, kind |-> kind])

EngineNext == AddFile \/ AddSymbol \/ AddEdge \/ Update \/ RemoveFile \/ Compact

SpecEngine == GraphInit /\ [][EngineNext]_vars

MaxReqs == 2

ReqIds == 1..MaxReqs

FileLock == "__file__"

Keys == Files \X (Names \cup ChainNames \cup {FileLock})

SymbolKey(file, name) == <<file, name>>

NoLocks == [k \in Keys |-> NoKey]

\* get_symbol_dependents that follows the Calls edges two hops: the callers
\* of the name and the callers of those callers
get_symbol_dependents_transitive(symbol, G) ==
    LET IsCall(d) == d.relationship = "Calls"
        CallersOf(name) == SeqFilter(IsCall, dependents(G, name))
        cs == CallersOf(symbol[2])
        Step(acc, d) == acc \o CallersOf(d.symbol)
        all == cs \o FoldSeq(Step, <<>>, cs)
        Outside(n) ==
            {SymbolKey(d.file, FileLock) :
                d \in {x \in Range(CallersOf(G.nodes[n].name)) : x.file # symbol[1]}}
    IN  IF symbol[2] = FileLock
        THEN Orders(UNION {Outside(n) : n \in Range(symbols_in_file(G, symbol[1]))})
        ELSE {[i \in DOMAIN all |-> SymbolKey(all[i].file, all[i].symbol)]}

\* the Vecs get_symbol_dependents can return: the callers of the name, or for
\* a file key the files of outside callers in the order of a HashSet
get_symbol_dependents(symbol, G) ==
    IF symbol[2] = FileLock
    THEN LET file_symbols == symbols_in_file(G, symbol[1])
             Outside(n) ==
                 LET ds == dependents(G, G.nodes[n].name)
                 IN  {SymbolKey(ds[i].file, FileLock) :
                         i \in {j \in DOMAIN ds : /\ ds[j].relationship = "Calls"
                                                   /\ ds[j].file # symbol[1]}}
             dep_set == UNION {Outside(n) : n \in Range(file_symbols)}
         IN  Orders(dep_set)
    ELSE LET ds == dependents(G, symbol[2])
             IsCall(d) == d.relationship = "Calls"
             cs == SeqFilter(IsCall, ds)
         IN  {[i \in DOMAIN cs |-> SymbolKey(cs[i].file, cs[i].symbol)]}

\* the first cone member locked under another primary, 0 if there is none
FirstBlocked(table, symbol, all_symbols) ==
    LET blocked == {i \in DOMAIN all_symbols :
                       /\ table[all_symbols[i]] # NoKey
                       /\ table[all_symbols[i]] # symbol}
    IN  IF blocked = {} THEN 0
        ELSE CHOOSE i \in blocked : \A j \in blocked : i <= j

\* try_acquire_symbol with file-granular exclusion: any entry on a key of the
\* symbol's file that another primary holds blocks it
try_acquire_symbol_by_file(table, symbol, deps) ==
    LET all_symbols == <<symbol>> \o deps
        taken == {k \in Keys : /\ k[1] = symbol[1] \/ k \in Range(all_symbols)
                               /\ table[k] # NoKey /\ table[k] # symbol}
    IN  IF taken # {}
        THEN LET k == CHOOSE k \in taken : TRUE
             IN  [locks |-> table,
                  result |-> [kind |-> "Blocked", blocked_by |-> table[k], on |-> k]]
        ELSE [locks |-> [k \in Keys |-> IF k \in Range(all_symbols) THEN symbol
                                        ELSE table[k]],
              result |-> [kind |-> "Acquired", symbol |-> symbol, dependents |-> deps]]

\* try_acquire_symbol without reentrancy: an entry of the primary itself
\* blocks as well
try_acquire_symbol_not_reentrant(table, symbol, deps) ==
    LET all_symbols == <<symbol>> \o deps
        blocked == {i \in DOMAIN all_symbols : table[all_symbols[i]] # NoKey}
        b == IF blocked = {} THEN 0 ELSE CHOOSE i \in blocked : \A j \in blocked : i <= j
    IN  IF b # 0
        THEN [locks |-> table,
              result |-> [kind |-> "Blocked", blocked_by |-> table[all_symbols[b]],
                          on |-> all_symbols[b]]]
        ELSE [locks |-> [k \in Keys |-> IF k \in Range(all_symbols) THEN symbol
                                        ELSE table[k]],
              result |-> [kind |-> "Acquired", symbol |-> symbol, dependents |-> deps]]

\* try_acquire_symbol that inserts as it checks: the cone members ahead of
\* the blocked one stay in the table
try_acquire_symbol_partial(table, symbol, deps) ==
    LET all_symbols == <<symbol>> \o deps
        b == FirstBlocked(table, symbol, all_symbols)
    IN  IF b # 0
        THEN [locks |-> [k \in Keys |->
                            IF \E i \in 1..(b - 1) : all_symbols[i] = k THEN symbol
                            ELSE table[k]],
              result |-> [kind |-> "Blocked", blocked_by |-> table[all_symbols[b]],
                          on |-> all_symbols[b]]]
        ELSE [locks |-> [k \in Keys |-> IF k \in Range(all_symbols) THEN symbol
                                        ELSE table[k]],
              result |-> [kind |-> "Acquired", symbol |-> symbol, dependents |-> deps]]

\* try_acquire_symbol checks the primary key only: the cone is not looked at
try_acquire_symbol_unchecked(table, symbol, deps) ==
    LET all_symbols == <<symbol>> \o deps
        b == FirstBlocked(table, symbol, <<symbol>>)
    IN  IF b # 0
        THEN [locks |-> table,
              result |-> [kind |-> "Blocked", blocked_by |-> table[symbol], on |-> symbol]]
        ELSE [locks |-> [k \in Keys |-> IF k \in Range(all_symbols) THEN symbol
                                        ELSE table[k]],
              result |-> [kind |-> "Acquired", symbol |-> symbol, dependents |-> deps]]

\* one pass over the cone under the manager mutex; acquire_symbol_with_wait
\* makes the same pass each time it wakes up
try_acquire_symbol(table, symbol, deps) ==
    LET all_symbols == <<symbol>> \o deps
        b == FirstBlocked(table, symbol, all_symbols)
    IN  IF b # 0
        THEN [locks |-> table,
              result |-> [kind |-> "Blocked", blocked_by |-> table[all_symbols[b]],
                          on |-> all_symbols[b]]]
        ELSE [locks |-> [k \in Keys |-> IF k \in Range(all_symbols) THEN symbol
                                        ELSE table[k]],
              result |-> [kind |-> "Acquired", symbol |-> symbol, dependents |-> deps]]

\* release_symbol that removes the entry of the key alone
release_symbol_key_only(table, symbol) ==
    [k \in Keys |-> IF k = symbol THEN NoKey ELSE table[k]]

release_symbol(table, symbol) ==
    [k \in Keys |-> IF table[k] = symbol THEN NoKey ELSE table[k]]

release(table, file) ==
    [k \in Keys |-> IF table[k] # NoKey /\ table[k][1] = file THEN NoKey ELSE table[k]]

\* replace_range on a file whose items take two lines each: the items within
\* the range give way to new_content; <<>> stands for the Err results
replace_range(src, start_line, end_line, new_content) ==
    LET total_lines == src.import + 2 * Len(src.items)
        end == IF end_line < total_lines THEN end_line ELSE total_lines
        Before(i) == src.import + 2 * i < start_line
        After(i) == src.import + 2 * i - 1 > end
        ix == [i \in DOMAIN src.items |-> i]
        keep_before == SeqFilter(Before, ix)
        keep_after == SeqFilter(After, ix)
    IN  IF start_line = 0 \/ end_line = 0 \/ start_line > end_line
           \/ start_line > total_lines
        THEN <<>>
        ELSE <<[src EXCEPT !.items = [i \in DOMAIN keep_before |-> src.items[keep_before[i]]]
                                      \o new_content
                                      \o [i \in DOMAIN keep_after |-> src.items[keep_after[i]]]]>>

\* rebuild_file: read the file, extract it, update the graph
rebuild_file(G, file_path, files, order) ==
    update_file_incremental(G, file_path, extract_file(file_path, files[file_path]), order)

\* write.rs, graph-guided write order.  A WriteOp with no symbol has symbol ""
WriteOp(path, content, symbol) == [path |-> path, content |-> content, symbol |-> symbol]

\* Kahn's algorithm over the operations: an operation comes after the
\* operations that write the dependencies of its symbol; what a cycle leaves
\* over is appended in input order
topo_sort_ops(G, operations) ==
    LET n == Len(operations)
        symbol_to_op(sym) ==
            LET m == {i \in 1..n : operations[i].symbol = sym}
            IN  IF sym = "" \/ m = {} THEN 0 ELSE CHOOSE i \in m : \A j \in m : j <= i
        Deps(i) ==
            IF operations[i].symbol = "" THEN <<>>
            ELSE LET Hit(d) == symbol_to_op(d.symbol) # 0
                     hs == SeqFilter(Hit, dependencies(G, operations[i].symbol))
                 IN  [k \in DOMAIN hs |-> symbol_to_op(hs[k].symbol)]
        op_deps == [i \in 1..n |-> Deps(i)]
        RECURSIVE Dependents(_, _)
        Dependents(j, i) ==
            IF i > n THEN <<>>
            ELSE LET Is(d) == d = j
                     hits == SeqFilter(Is, op_deps[i])
                 IN  [k \in DOMAIN hits |-> i] \o Dependents(j, i + 1)
        op_dependents == [j \in 1..n |-> Dependents(j, 1)]
        Free(i) == Len(op_deps[i]) = 0
        RECURSIVE Visit(_, _, _, _)
        Visit(in_degree, queue, ds, k) ==
            IF k > Len(ds) THEN <<in_degree, queue>>
            ELSE LET deg == [in_degree EXCEPT ![ds[k]] = @ - 1]
                 IN  Visit(deg, IF deg[ds[k]] = 0 THEN Append(queue, ds[k]) ELSE queue,
                           ds, k + 1)
        RECURSIVE Kahn(_, _, _)
        Kahn(in_degree, queue, order) ==
            IF queue = <<>> THEN order
            ELSE LET v == Visit(in_degree, Tail(queue), op_dependents[Head(queue)], 1)
                 IN  Kahn(v[1], v[2], Append(order, Head(queue)))
        order == Kahn([i \in 1..n |-> Len(op_deps[i])],
                      SeqFilter(Free, [i \in 1..n |-> i]), <<>>)
        Left(i) == ~SeqContains(order, i)
    IN  order \o SeqFilter(Left, [i \in 1..n |-> i])

\* create_file: fs::write of the whole content, which the file system may refuse
create_file(files, path, content, ok) ==
    IF ok THEN [files EXCEPT ![path] = content] ELSE files

\* the graphs the re-index loop of the ordered write can leave: rebuild_file
\* per operation in input order, an Err dropped
RECURSIVE RebuiltGraphs(_, _, _)
RebuiltGraphs(G, operations, files) ==
    IF operations = <<>> THEN {G}
    ELSE LET path == Head(operations).path
             E == extract_file(path, files[path])
             next == {G} \cup {NormalizeBorn(rebuild_file(G, path, files, order)) :
                                  order \in Orders(NamesOf(E.symbols))}
         IN  UNION {RebuiltGraphs(G2, Tail(operations), files) : G2 \in next}

(***************************************************************************)
(* One server (the daemon, or the MCP server) with its graph behind an     *)
(* RwLock, its lock manager and MaxReqs concurrent write requests.  rw is  *)
(* the set of requests holding a read guard; a write guard is taken and    *)
(* dropped within one step.  hist keeps what the table does not: which     *)
(* request inserted an entry, the cone each primary was given, and the     *)
(* last pass over a cone.                                                  *)
(***************************************************************************)
InitialDisk ==
    [f \in Files |->
        IF f = "a.rs"
        THEN [items |-> <<[name |-> "foo", body |-> "v1"], [name |-> "bar", body |-> "v2"]>>,
              import |-> 0, api |-> 0]
        ELSE [items |-> <<[name |-> "bar", body |-> "v2"]>>, import |-> 0, api |-> 0]]

DaemonContents == {src \in SmallSources : Len(src.items) = 1 /\ src.items[1].name = "foo"}

\* the new_content of a range write: one function, or nothing (the lines go)
RangeContents == {<<[name |-> "foo", body |-> "v2"]>>, <<>>}

Ranges == {<<1, 2>>, <<3, 4>>, <<1, 4>>}

NewRequest(kind, file, start_line, end_line, content) ==
    [kind |-> kind, file |-> file, start_line |-> start_line, end_line |-> end_line,
     content |-> content, pc |-> "start", affected |-> <<>>, i |-> 0,
     dependents |-> <<>>, locked_symbols |-> <<>>, waited |-> FALSE,
     blocked_by |-> NoKey, result |-> [kind |-> "none"], wrote |-> FALSE,
     rebuilt |-> FALSE, cone |-> {}, span |-> "none", blocked_owner |-> 0]

\* the operations of an ordered write: bar calls foo, so the second goes first
OrderedOps ==
    {<<WriteOp("a.rs", c, "bar"), WriteOp("b.rs", c, "foo")>> : c \in DaemonContents}

Requests(server) ==
    IF server = "daemon"
    THEN {NewRequest("daemon", f, 0, 0, c) : f \in Files, c \in DaemonContents}
    ELSE {NewRequest("range", f, r[1], r[2], c) :
             f \in Files, r \in Ranges, c \in RangeContents}
         \cup {NewRequest("ordered", operations[1].path, 0, 0, operations) :
                  operations \in OrderedOps}

LockInit ==
    /\ disk = InitialDisk
    /\ g = NormalizeBorn(build_from_extractions(EmptyGraph,
               <<extract_file("a.rs", InitialDisk["a.rs"]),
                 extract_file("b.rs", InitialDisk["b.rs"])>>))
    /\ prev = EmptyGraph
    /\ last = [op |-> "serve"]
    /\ ops = 0
    /\ locks = NoLocks
    /\ rw = {}
    /\ \E server \in {"daemon", "mcp"} :
          /\ hist = [server |-> server, owner |-> [k \in Keys |-> 0],
                     cones |-> [k \in Keys |-> {}], event |-> [kind |-> "none"]]
          /\ req \in [ReqIds -> Requests(server)]

\* bookkeeping of a pass of request r over the cone of symbol
Passed(r, symbol, deps, a) ==
    LET cone == Range(<<symbol>> \o deps)
        got == a.result.kind = "Acquired"
    IN  [hist EXCEPT
            !.owner = IF got THEN [k \in Keys |-> IF k \in cone THEN r ELSE @[k]] ELSE @,
            !.cones[symbol] = IF got THEN @ \cup cone ELSE @,
            !.event = [kind |-> "pass", by |-> r, symbol |-> symbol, cone |-> cone,
                       before |-> locks, after |-> a.locks, result |-> a.result]]

\* bookkeeping of a release that leaves the table as table
Released(table) ==
    [hist EXCEPT
        !.owner = [k \in Keys |-> IF table[k] = NoKey THEN 0 ELSE @[k]],
        !.cones = [p \in Keys |-> IF \E k \in Keys : table[k] = p THEN @[p] ELSE {}]]

FileKey(r) == SymbolKey(req[r].file, FileLock)

\* with_file_lock: graph.read(), then acquire_with_wait computes the cone
DRead(r) ==
    /\ req[r].kind = "daemon" /\ req[r].pc = "start"
    /\ \E deps \in get_symbol_dependents(FileKey(r), g) :
          req' = [req EXCEPT ![r].pc = "acquire", ![r].dependents = deps]
    /\ rw' = rw \cup {r}
    /\ UNCHANGED <<g, prev, last, locks, disk, hist, ops>>

\* the read guard of with_file_lock is still held when the write begins
DAcquire_keeps_read_guard(r) ==
    /\ req[r].pc = "acquire"
    /\ LET a == try_acquire_symbol(locks, FileKey(r), req[r].dependents) IN
          /\ a.result.kind = "Acquired"
          /\ locks' = a.locks
          /\ hist' = Passed(r, FileKey(r), req[r].dependents, a)
          /\ req' = [req EXCEPT ![r].pc = "write", ![r].result = a.result,
                                ![r].cone = @ \cup Range(<<FileKey(r)>> \o req[r].dependents),
                                ![r].span = "open"]
    /\ UNCHANGED <<g, prev, last, rw, disk, ops>>

\* a pass that finds the cone free: insert the entries, return, drop(g)
DAcquire(r) ==
    /\ req[r].pc = "acquire"
    /\ LET a == try_acquire_symbol(locks, FileKey(r), req[r].dependents) IN
          /\ a.result.kind = "Acquired"
          /\ locks' = a.locks
          /\ hist' = Passed(r, FileKey(r), req[r].dependents, a)
          /\ req' = [req EXCEPT
                        ![r].pc = "write",
                        ![r].result = IF req[r].waited
                                      THEN [a.result EXCEPT !.kind = "AcquiredAfterWait"]
                                      ELSE a.result,
                        ![r].cone = @ \cup Range(<<FileKey(r)>> \o req[r].dependents),
                        ![r].span = "open"]
    /\ rw' = rw \ {r}
    /\ UNCHANGED <<g, prev, last, disk, ops>>

\* a pass that finds the cone blocked: wait on the condvar
DWait(r) ==
    /\ req[r].pc = "acquire"
    /\ LET a == try_acquire_symbol(locks, FileKey(r), req[r].dependents) IN
          /\ a.result.kind = "Blocked"
          /\ ~(req[r].waited /\ req[r].blocked_by = a.result.blocked_by)
          /\ hist' = Passed(r, FileKey(r), req[r].dependents, a)
          /\ req' = [req EXCEPT ![r].waited = TRUE,
                                ![r].blocked_by = a.result.blocked_by,
                                ![r].blocked_owner = hist.owner[a.result.on]]
    /\ UNCHANGED <<g, prev, last, locks, rw, disk, ops>>

\* the wait times out: Blocked by the blocker of the last pass, drop(g)
DTimeout(r) ==
    /\ req[r].pc = "acquire" /\ req[r].waited
    /\ req' = [req EXCEPT ![r].pc = "done",
                          ![r].result = [kind |-> "Blocked",
                                         blocked_by |-> req[r].blocked_by]]
    /\ rw' = rw \ {r}
    /\ UNCHANGED <<g, prev, last, locks, disk, hist, ops>>

\* write_fn: the Create/Insert/Replace of the request, which may fail
DWrite(r) ==
    /\ req[r].kind = "daemon" /\ req[r].pc = "write"
    /\ \E ok \in BOOLEAN :
          /\ disk' = IF ok THEN [disk EXCEPT ![req[r].file] = req[r].content] ELSE disk
          /\ req' = [req EXCEPT ![r].pc = "release", ![r].wrote = ok,
                                ![r].result = IF ok THEN @ ELSE [kind |-> "Err"]]
    /\ UNCHANGED <<g, prev, last, locks, rw, hist, ops>>

\* lock_manager.release(file_path)
DRelease(r) ==
    /\ req[r].pc = "release"
    /\ locks' = release(locks, req[r].file)
    /\ hist' = Released(release(locks, req[r].file))
    /\ req' = [req EXCEPT ![r].pc = IF req[r].wrote THEN "rebuild" ELSE "done",
                          ![r].span = "closed"]
    /\ UNCHANGED <<g, prev, last, rw, disk, ops>>

\* graph.write(), rebuild_file, whose Err (the file cannot be read or parsed)
\* is dropped
DRebuild(r) ==
    /\ req[r].kind = "daemon" /\ req[r].pc = "rebuild"
    /\ rw = {}
    /\ LET E == extract_file(req[r].file, disk[req[r].file]) IN
       \E order \in Orders(NamesOf(E.symbols)) :
       \E ok \in BOOLEAN :
          /\ g' = IF ok THEN NormalizeBorn(rebuild_file(g, req[r].file, disk, order)) ELSE g
          /\ req' = [req EXCEPT ![r].pc = "done", ![r].rebuilt = ok]
    /\ UNCHANGED <<prev, last, locks, rw, disk, hist, ops>>

\* AnchorMcp::write, range mode: the affected symbols, from a clone of the graph
MSnapshot(r) ==
    /\ req[r].kind = "range" /\ req[r].pc = "start"
    /\ LET affected == symbols_in_range(g, req[r].file, req[r].start_line, req[r].end_line)
       IN  req' = [req EXCEPT ![r].pc = "read",
                              ![r].affected = [i \in DOMAIN affected |->
                                                  g.nodes[affected[i]].name]]
    /\ UNCHANGED <<g, prev, last, locks, rw, disk, hist, ops>>

\* self.graph.read() for the lock loop
MRead(r) ==
    /\ req[r].pc = "read"
    /\ rw' = rw \cup {r}
    /\ req' = [req EXCEPT ![r].pc = "lock", ![r].i = 1]
    /\ UNCHANGED <<g, prev, last, locks, disk, hist, ops>>

AffectedKey(r) == SymbolKey(req[r].file, req[r].affected[req[r].i])

\* one turn of the lock loop, Acquired: push the symbol
MTryAcquired(r) ==
    /\ req[r].pc = "lock" /\ req[r].i <= Len(req[r].affected)
    /\ \E deps \in get_symbol_dependents(AffectedKey(r), g) :
          LET a == try_acquire_symbol(locks, AffectedKey(r), deps) IN
          /\ a.result.kind = "Acquired"
          /\ locks' = a.locks
          /\ hist' = Passed(r, AffectedKey(r), deps, a)
          /\ req' = [req EXCEPT
                        ![r].i = @ + 1,
                        ![r].locked_symbols = Append(@, AffectedKey(r)),
                        ![r].cone = @ \cup Range(<<AffectedKey(r)>> \o deps),
                        ![r].span = "open"]
    /\ UNCHANGED <<g, prev, last, rw, disk, ops>>

\* a Blocked turn of the lock loop that returns at once: the symbols locked
\* in the turns before stay locked
MTryBlocked_keeps_locks(r) ==
    /\ req[r].pc = "lock" /\ req[r].i <= Len(req[r].affected)
    /\ \E deps \in get_symbol_dependents(AffectedKey(r), g) :
          LET a == try_acquire_symbol(locks, AffectedKey(r), deps) IN
          /\ a.result.kind = "Blocked"
          /\ hist' = Passed(r, AffectedKey(r), deps, a)
          /\ req' = [req EXCEPT ![r].pc = "done",
                                ![r].result = a.result,
                                ![r].blocked_by = a.result.blocked_by,
                                ![r].blocked_owner = hist.owner[a.result.on]]
    /\ rw' = rw \ {r}
    /\ UNCHANGED <<g, prev, last, locks, disk, ops>>

\* one turn of the lock loop, Blocked: go release what was locked
MTryBlocked(r) ==
    /\ req[r].pc = "lock" /\ req[r].i <= Len(req[r].affected)
    /\ \E deps \in get_symbol_dependents(AffectedKey(r), g) :
          LET a == try_acquire_symbol(locks, AffectedKey(r), deps) IN
          /\ a.result.kind = "Blocked"
          /\ hist' = Passed(r, AffectedKey(r), deps, a)
          /\ req' = [req EXCEPT ![r].pc = "backout",
                                ![r].result = a.result,
                                ![r].blocked_by = a.result.blocked_by,
                                ![r].blocked_owner = hist.owner[a.result.on]]
    /\ UNCHANGED <<g, prev, last, locks, rw, disk, ops>>

\* the loop is over: the read guard goes out of scope
MLocked(r) ==
    /\ req[r].pc = "lock" /\ req[r].i > Len(req[r].affected)
    /\ rw' = rw \ {r}
    /\ req' = [req EXCEPT ![r].pc = "write"]
    /\ UNCHANGED <<g, prev, last, locks, disk, hist, ops>>

\* release_symbol of the next locked symbol: after Blocked, after a failed
\* replace_range, or after the rebuild
MRelease(r) ==
    /\ req[r].pc \in {"backout", "unlock"}
    /\ req[r].locked_symbols # <<>>
    /\ locks' = release_symbol(locks, Head(req[r].locked_symbols))
    /\ hist' = Released(release_symbol(locks, Head(req[r].locked_symbols)))
    /\ req' = [req EXCEPT ![r].locked_symbols = Tail(@)]
    /\ UNCHANGED <<g, prev, last, rw, disk, ops>>

\* return Err(BLOCKED): the read guard goes out of scope
MBlocked(r) ==
    /\ req[r].pc = "backout" /\ req[r].locked_symbols = <<>>
    /\ rw' = rw \ {r}
    /\ req' = [req EXCEPT ![r].pc = "done",
                          ![r].span = IF @ = "open" THEN "closed" ELSE @]
    /\ UNCHANGED <<g, prev, last, locks, disk, hist, ops>>

\* replace_range on the file
MWrite(r) ==
    /\ req[r].kind = "range" /\ req[r].pc = "write"
    /\ LET w == replace_range(disk[req[r].file], req[r].start_line, req[r].end_line,
                              req[r].content)
       IN  /\ disk' = IF w # <<>> THEN [disk EXCEPT ![req[r].file] = w[1]] ELSE disk
           /\ req' = [req EXCEPT ![r].pc = IF w # <<>> THEN "rebuild" ELSE "unlock",
                                 ![r].wrote = w # <<>>,
                                 ![r].result = IF w # <<>> THEN @ ELSE [kind |-> "Err"]]
    /\ UNCHANGED <<g, prev, last, locks, rw, hist, ops>>

\* self.graph.write(), rebuild_file, whose Err is dropped
MRebuild(r) ==
    /\ req[r].kind = "range" /\ req[r].pc = "rebuild"
    /\ rw = {}
    /\ LET E == extract_file(req[r].file, disk[req[r].file]) IN
       \E order \in Orders(NamesOf(E.symbols)) :
       \E ok \in BOOLEAN :
          /\ g' = IF ok THEN NormalizeBorn(rebuild_file(g, req[r].file, disk, order)) ELSE g
          /\ req' = [req EXCEPT ![r].pc = "unlock", ![r].rebuilt = ok]
    /\ UNCHANGED <<prev, last, locks, rw, disk, hist, ops>>

\* every lock is released: the request returns
MDone(r) ==
    /\ req[r].pc = "unlock" /\ req[r].locked_symbols = <<>>
    /\ req' = [req EXCEPT ![r].pc = "done",
                          ![r].span = IF @ = "open" THEN "closed" ELSE @]
    /\ UNCHANGED <<g, prev, last, locks, rw, disk, hist, ops>>

\* AnchorMcp::write, ordered mode: load_graph, then write_ordered sorts the
\* operations by the loaded graph
MOrderedPlan(r) ==
    /\ req[r].kind = "ordered" /\ req[r].pc = "start"
    /\ req' = [req EXCEPT ![r].pc = "ordered", ![r].i = 1,
                          ![r].affected = topo_sort_ops(g, req[r].content)]
    /\ UNCHANGED <<g, prev, last, locks, rw, disk, hist, ops>>

\* write_ordered, one turn of its loop: create_file(op)?, no lock taken
MOrderedStep(r) ==
    /\ req[r].pc = "ordered" /\ req[r].i <= Len(req[r].affected)
    /\ LET op == req[r].content[req[r].affected[req[r].i]] IN
       \E ok \in BOOLEAN :
          /\ disk' = create_file(disk, op.path, op.content, ok)
          /\ req' = IF ok THEN [req EXCEPT ![r].i = @ + 1, ![r].wrote = TRUE]
                     ELSE [req EXCEPT ![r].pc = "done", ![r].result = [kind |-> "Err"]]
    /\ UNCHANGED <<g, prev, last, locks, rw, hist, ops>>

\* every operation is written: self.graph.write(), rebuild_file per operation
MOrderedRebuild(r) ==
    /\ req[r].pc = "ordered" /\ req[r].i > Len(req[r].affected)
    /\ rw = {}
    /\ g' \in RebuiltGraphs(g, req[r].content, disk)
    /\ req' = [req EXCEPT ![r].pc = "done", ![r].rebuilt = TRUE,
                          ![r].result = [kind |-> "Ok"]]
    /\ UNCHANGED <<prev, last, locks, rw, disk, hist, ops>>

LockNext ==
    \/ \E r \in ReqIds : DRead(r)
    \/ \E r \in ReqIds : DAcquire(r)
    \/ \E r \in ReqIds : DWait(r)
    \/ \E r \in ReqIds : DTimeout(r)
    \/ \E r \in ReqIds : DWrite(r)
    \/ \E r \in ReqIds : DRelease(r)
    \/ \E r \in ReqIds : DRebuild(r)
    \/ \E r \in ReqIds : MSnapshot(r)
    \/ \E r \in ReqIds : MRead(r)
    \/ \E r \in ReqIds : MTryAcquired(r)
    \/ \E r \in ReqIds : MTryBlocked(r)
    \/ \E r \in ReqIds : MLocked(r)
    \/ \E r \in ReqIds : MRelease(r)
    \/ \E r \in ReqIds : MBlocked(r)
    \/ \E r \in ReqIds : MWrite(r)
    \/ \E r \in ReqIds : MRebuild(r)
    \/ \E r \in ReqIds : MDone(r)
    \/ \E r \in ReqIds : MOrderedPlan(r)
    \/ \E r \in ReqIds : MOrderedStep(r)
    \/ \E r \in ReqIds : MOrderedRebuild(r)

SpecLock == LockInit /\ [][LockNext]_vars

(***************************************************************************)
(* The claims about locking and the write flows.                           *)
(***************************************************************************)
InSpan(r) == req[r].span = "open"

\* C1: two requests whose lock cones overlap, also two that name the same
\* primary key, are never both between their lock acquisition and release
C1_WritesSerialized ==
    \A r1, r2 \in ReqIds :
       (r1 # r2 /\ InSpan(r1) /\ InSpan(r2)) => req[r1].cone \cap req[r2].cone = {}

\* C2: a request that has written its file holds its cone lock until the
\* file is re-extracted into the graph
C2_RebuildBeforeRelease ==
    \A r \in ReqIds : (req[r].wrote /\ ~req[r].rebuilt) => InSpan(r)

\* C4: a range write is never Blocked by a lock it has taken itself
C4_NoSelfBlock ==
    \A r \in ReqIds :
       (req[r].kind = "range" /\ req[r].result.kind = "Blocked") => req[r].blocked_owner # r

Holding == {p \in Keys : hist.cones[p] # {}}

OtherPrimaries(e) ==
    {e.before[k] : k \in {m \in e.cone : e.before[m] # NoKey /\ e.before[m] # e.symbol}}

\* C3: no two distinct primary keys whose cones overlap both hold locks, and
\* a pass over the cone of K that meets a key recorded under another primary
\* returns Blocked naming such a primary (Acquired otherwise)
C3_MutualExclusion ==
    /\ \A p1, p2 \in Holding : p1 # p2 => hist.cones[p1] \cap hist.cones[p2] = {}
    /\ \A k \in Keys : locks[k] # NoKey => k \in hist.cones[locks[k]]
    /\ hist.event.kind = "pass" =>
          IF OtherPrimaries(hist.event) # {}
          THEN /\ hist.event.result.kind = "Blocked"
               /\ hist.event.result.blocked_by \in OtherPrimaries(hist.event)
          ELSE hist.event.result.kind = "Acquired"

\* a request that holds no lock is refused a key that sits in the cone of
\* another primary
C3_Witness ==
    /\ hist.event.kind = "pass"
    /\ req[hist.event.by].cone = {}
    /\ hist.event.result.kind = "Blocked"
    /\ hist.event.symbol # hist.event.result.blocked_by
    /\ hist.event.before[hist.event.symbol] = hist.event.result.blocked_by
    /\ hist.event.symbol \in hist.cones[hist.event.result.blocked_by]

(***************************************************************************)
(* The lock manager on its own: the daemon's connection threads serve      *)
(* LockSymbol and UnlockSymbol (daemon/server.rs) and the file-level       *)
(* release of with_file_lock against one manager and a graph that does not *)
(* change.  In the graph baz calls bar and bar calls foo.  The condvar     *)
(* lock_released is the set of threads at pc "asleep"; release_symbol and  *)
(* release drop the mutex before they notify, which is two steps here.     *)
(* last is the last call a thread has made on the manager.                 *)
(***************************************************************************)
ManagerDisk ==
    [f \in Files |->
        IF f = "a.rs"
        THEN [items |-> <<[name |-> "foo", body |-> "v1"], [name |-> "bar", body |-> "v2"]>>,
              import |-> 0, api |-> 0]
        ELSE [items |-> <<[name |-> "baz", body |-> "v3"]>>, import |-> 0, api |-> 0]]

\* the keys the clients name
ManagerKeys ==
    {SymbolKey("a.rs", "foo"), SymbolKey("a.rs", "bar"), SymbolKey("b.rs", "baz"),
     SymbolKey("a.rs", FileLock)}

IdleThread ==
    [pc |-> "idle", key |-> NoKey, dependents |-> <<>>, waited |-> FALSE,
     blocked_by |-> NoKey]

ManagerInit ==
    /\ disk = ManagerDisk
    /\ g = NormalizeBorn(build_from_extractions(EmptyGraph,
               <<extract_file("a.rs", ManagerDisk["a.rs"]),
                 extract_file("b.rs", ManagerDisk["b.rs"])>>))
    /\ prev = EmptyGraph
    /\ last = [op |-> "serve"]
    /\ ops = 0
    /\ locks = NoLocks
    /\ rw = {}
    /\ hist = [server |-> "manager"]
    /\ req = [r \in ReqIds |-> IdleThread]

\* Request::LockSymbol: graph.read(); acquire_symbol_with_wait computes the
\* dependents once, before it takes the mutex
LRead(r) ==
    /\ req[r].pc = "idle"
    /\ \E key \in ManagerKeys :
       \E deps \in get_symbol_dependents(key, g) :
          req' = [req EXCEPT ![r].pc = "pass", ![r].key = key, ![r].dependents = deps]
    /\ rw' = rw \cup {r}
    /\ UNCHANGED <<g, prev, last, locks, disk, hist, ops>>

\* the pass of thread r over its cone, under the mutex
Attempt(r) == try_acquire_symbol(locks, req[r].key, req[r].dependents)

\* a pass of the loop that finds the cone free: insert the entries, return
LAcquire(r) ==
    /\ req[r].pc = "pass"
    /\ Attempt(r).result.kind = "Acquired"
    /\ locks' = Attempt(r).locks
    /\ last' = [op |-> "LockSymbol", by |-> r, symbol |-> req[r].key,
                result |-> IF req[r].waited THEN "AcquiredAfterWait" ELSE "Acquired",
                again |-> locks[req[r].key] = req[r].key]
    /\ req' = [req EXCEPT ![r] = IdleThread]
    /\ rw' = rw \ {r}
    /\ UNCHANGED <<g, prev, disk, hist, ops>>

\* a pass that finds the cone blocked with time left: wait_timeout gives up
\* the mutex and waits on the condvar in one step
LSleep(r) ==
    /\ req[r].pc = "pass"
    /\ Attempt(r).result.kind = "Blocked"
    /\ locks' = Attempt(r).locks
    /\ req' = [req EXCEPT ![r].pc = "asleep", ![r].waited = TRUE,
                          ![r].blocked_by = Attempt(r).result.blocked_by]
    /\ UNCHANGED <<g, prev, last, rw, disk, hist, ops>>

\* a pass that finds the cone blocked with elapsed >= timeout: Blocked
LExpired(r) ==
    /\ req[r].pc = "pass"
    /\ Attempt(r).result.kind = "Blocked"
    /\ locks' = Attempt(r).locks
    /\ last' = [op |-> "LockSymbol", by |-> r, symbol |-> req[r].key, result |-> "Blocked",
                again |-> FALSE, blocked_by |-> Attempt(r).result.blocked_by]
    /\ req' = [req EXCEPT ![r] = IdleThread]
    /\ rw' = rw \ {r}
    /\ UNCHANGED <<g, prev, disk, hist, ops>>

\* wait_timeout returns timed_out: Blocked by the blocker of the last pass
LTimeout(r) ==
    /\ req[r].pc = "asleep"
    /\ last' = [op |-> "LockSymbol", by |-> r, symbol |-> req[r].key, result |-> "Blocked",
                again |-> FALSE, blocked_by |-> req[r].blocked_by]
    /\ req' = [req EXCEPT ![r] = IdleThread]
    /\ rw' = rw \ {r}
    /\ UNCHANGED <<g, prev, locks, disk, hist, ops>>

\* Request::UnlockSymbol: release_symbol removes the entries under the mutex
URemove(r) ==
    /\ req[r].pc = "idle"
    /\ \E key \in ManagerKeys :
          /\ locks' = release_symbol(locks, key)
          /\ last' = [op |-> "UnlockSymbol", by |-> r, symbol |-> key]
          /\ req' = [req EXCEPT ![r].pc = "notify", ![r].key = key]
    /\ UNCHANGED <<g, prev, rw, disk, hist, ops>>

\* LockManager::release on the file of a key, as with_file_lock calls it
FRemove(r) ==
    /\ req[r].pc = "idle"
    /\ \E key \in {k \in ManagerKeys : k[2] = FileLock} :
          /\ locks' = release(locks, key[1])
          /\ last' = [op |-> "release", by |-> r, symbol |-> key]
          /\ req' = [req EXCEPT ![r].pc = "notify", ![r].key = key]
    /\ UNCHANGED <<g, prev, rw, disk, hist, ops>>

\* a release ends without a notify_all: the threads on the condvar sleep on
Notify_nobody(r) ==
    /\ req[r].pc = "notify"
    /\ req' = [req EXCEPT ![r] = IdleThread]
    /\ UNCHANGED <<g, prev, last, locks, rw, disk, hist, ops>>

\* lock_released.notify_all(): every thread on the condvar goes for the mutex
Notify(r) ==
    /\ req[r].pc = "notify"
    /\ req' = [w \in ReqIds |->
                  IF w = r THEN IdleThread
                  ELSE IF req[w].pc = "asleep" THEN [req[w] EXCEPT !.pc = "pass"]
                  ELSE req[w]]
    /\ UNCHANGED <<g, prev, last, locks, rw, disk, hist, ops>>

\* a wait on a condvar may return without a notify
Spurious(r) ==
    /\ req[r].pc = "asleep"
    /\ req' = [req EXCEPT ![r].pc = "pass"]
    /\ UNCHANGED <<g, prev, last, locks, rw, disk, hist, ops>>

ManagerNext ==
    \/ \E r \in ReqIds : LRead(r)
    \/ \E r \in ReqIds : LAcquire(r)
    \/ \E r \in ReqIds : LSleep(r)
    \/ \E r \in ReqIds : LExpired(r)
    \/ \E r \in ReqIds : LTimeout(r)
    \/ \E r \in ReqIds : URemove(r)
    \/ \E r \in ReqIds : FRemove(r)
    \/ \E r \in ReqIds : Notify(r)
    \/ \E r \in ReqIds : Spurious(r)

SpecManager == ManagerInit /\ [][ManagerNext]_vars

\* the threads run on: a thread that can make its pass makes it, and a
\* release goes on to its notify_all; no timer has to fire
ManagerFairness ==
    \A r \in ReqIds : /\ WF_vars(LAcquire(r) \/ LSleep(r))
                      /\ WF_vars(Notify(r))

SpecManagerFair == SpecManager /\ ManagerFairness

(***************************************************************************)
(* The claims about the lock manager on its own.                           *)
(***************************************************************************)
\* the cone the manager computes for a key from the graph
ConeOf(key) == UNION {Range(<<key>> \o deps) : deps \in get_symbol_dependents(key, g)}

HeldPrimaries == {locks[k] : k \in Keys} \ {NoKey}

\* the cone of thread r's key meets the cone of no other primary that holds
DisjointFromHeld(r) ==
    \A p \in HeldPrimaries \ {req[r].key} : ConeOf(p) \cap ConeOf(req[r].key) = {}

\* C11: an acquire on a key whose cone is disjoint from the cone of every
\* other primary that holds locks gets Acquired on its pass, whichever
\* acquires and releases came before, in the same file or in another one
C11_DisjointConesAcquire ==
    \A r \in ReqIds :
       (req[r].pc = "pass" /\ DisjointFromHeld(r))
          => Attempt(r).result.kind = "Acquired"

\* three primaries with disjoint cones hold at once, two of them in one file
C11_Witness ==
    /\ last.op = "LockSymbol" /\ last.result = "Acquired"
    /\ locks[SymbolKey("a.rs", "foo")] = SymbolKey("a.rs", "foo")
    /\ locks[SymbolKey("a.rs", FileLock)] = SymbolKey("a.rs", FileLock)
    /\ locks[SymbolKey("b.rs", "baz")] = SymbolKey("b.rs", "baz")

\* no cone member of key sits under another primary: a pass would acquire
ConeFree(key) == \A k \in ConeOf(key) : locks[k] \in {NoKey, key}

\* thread r has come back from its acquire with the key acquired
Got(r) ==
    /\ req[r].pc = "idle"
    /\ last.op = "LockSymbol" /\ last.by = r
    /\ last.result \in {"Acquired", "AcquiredAfterWait"}
    /\ \A k \in ConeOf(last.symbol) : locks[k] = last.symbol

\* the timeout of thread r's acquire has run out
TimedOut(r) ==
    /\ req[r].pc = "idle"
    /\ last.op = "LockSymbol" /\ last.by = r /\ last.result = "Blocked"

\* thread r waits, or is back from its wait, for a cone that is taken
Taken(r) == req[r].pc \in {"asleep", "pass"} /\ ~ConeFree(req[r].key)

\* C12: a thread that waits for a blocked cone does not miss a release:
\* once the cone is free of other primaries, the waiter comes back with
\* Acquired or AcquiredAfterWait and its whole cone recorded under its key,
\* unless its timeout runs out or another primary takes a key of the cone
C12_ReleaseNeverMissed ==
    \A r \in ReqIds :
       (req[r].pc = "asleep" /\ ConeFree(req[r].key))
          ~> (Got(r) \/ TimedOut(r) \/ Taken(r))

\* a waiter has come back with AcquiredAfterWait after its blocker released
C12_Witness ==
    /\ last.op = "LockSymbol" /\ last.result = "AcquiredAfterWait"
    /\ Got(last.by)
    /\ \E p \in ManagerKeys \ {last.symbol} :
          /\ ConeOf(p) \cap ConeOf(last.symbol) # {}
          /\ \A k \in Keys : locks[k] # p

\* the whole cone of thread r's key is recorded under that key
HoldsCone(r) == \A k \in Range(<<req[r].key>> \o req[r].dependents) : locks[k] = req[r].key

\* C13: a primary that holds its cone and asks for it again gets Acquired,
\* and the table (the locked keys and their primaries) stays as it is
C13_Reentrant ==
    \A r \in ReqIds :
       (req[r].pc = "pass" /\ HoldsCone(r))
          => /\ Attempt(r).result.kind = "Acquired"
             /\ Attempt(r).locks = locks

\* an acquire has come back Acquired for a key that was held already, next
\* to the lock of another primary
C13_Witness ==
    /\ last.op = "LockSymbol" /\ last.result = "Acquired" /\ last.again
    /\ \A k \in ConeOf(last.symbol) : locks[k] = last.symbol
    /\ \E k \in Keys : locks[k] \notin {NoKey, last.symbol}

\* the symbols the graph defines in a file, as lock keys
DefinedIn(file) ==
    {SymbolKey(file, g.nodes[n].name) : n \in Range(symbols_in_file(g, file))}

\* C14: while the __file__ lock of a file is held, an acquire by another
\* primary on a symbol defined in the file is Blocked, and while a symbol
\* lock in the file is held, the __file__ acquire on the file is Blocked
C14_FileLockIsWholeFile ==
    \A r \in ReqIds :
       req[r].pc = "pass" =>
          LET key == req[r].key
              file_key == SymbolKey(key[1], FileLock)
          IN  /\ (key \in DefinedIn(key[1]) /\ locks[file_key] = file_key)
                    => Attempt(r).result.kind = "Blocked"
              /\ (key = file_key /\ \E s \in DefinedIn(key[1]) : locks[s] = s)
                    => Attempt(r).result.kind = "Blocked"

\* the symbols with a live Calls edge to a live symbol of the key's name
DirectCallers(key) ==
    {SymbolKey(g.nodes[g.edges[e].source].file_path, g.nodes[g.edges[e].source].name) :
        e \in {x \in DOMAIN g.edges :
                  /\ g.edges[x].kind = "Calls"
                  /\ is_live(g, g.edges[x].source) /\ is_live(g, g.edges[x].target)
                  /\ g.nodes[g.edges[x].target].name = key[2]}}

RECURSIVE CallersWithin(_, _)
CallersWithin(S, n) ==
    IF n = 0 THEN S
    ELSE CallersWithin(S \cup UNION {DirectCallers(k) : k \in S}, n - 1)

\* the symbols that reach key through a chain of two or more Calls edges
ChainCallers(key) ==
    CallersWithin(UNION {DirectCallers(m) : m \in DirectCallers(key)}, Cardinality(Keys))

OneHop(key) == {key} \cup DirectCallers(key)

SymbolLocksHeld == {s \in HeldPrimaries : s[2] # FileLock}

\* C15 as stated: while s is held, an acquire by another primary on a symbol
\* that reaches s through a chain of two or more Calls edges is Blocked
C15_TransitiveCallersExcluded ==
    \A r \in ReqIds :
       (req[r].pc = "pass" /\ \E s \in SymbolLocksHeld \ {req[r].key} :
                                  req[r].key \in ChainCallers(s))
          => Attempt(r).result.kind = "Blocked"

\* C15, amended: holding s excludes s and its one-hop callers.  An acquire
\* by another primary on a direct Calls caller of s is Blocked; an acquire on
\* a symbol whose own one-hop cone meets the one-hop cone of no held symbol
\* lock is Acquired, also when it reaches s through two or more Calls edges
C15_OneHopCallersExcluded ==
    \A r \in ReqIds :
       (req[r].pc = "pass" /\ req[r].key[2] # FileLock) =>
          /\ (\E s \in SymbolLocksHeld \ {req[r].key} : req[r].key \in OneHop(s))
                => Attempt(r).result.kind = "Blocked"
          /\ (\A s \in SymbolLocksHeld \ {req[r].key} : OneHop(req[r].key) \cap OneHop(s) = {})
                => Attempt(r).result.kind = "Acquired"

\* baz, which calls bar, which calls foo, is acquired while foo is held
C15_Witness ==
    /\ last.op = "LockSymbol" /\ last.result = "Acquired" /\ ~last.again
    /\ \E s \in SymbolLocksHeld \ {last.symbol} :
          /\ last.symbol \in ChainCallers(s) \ OneHop(s)
          /\ \A k \in OneHop(s) : locks[k] = s
    /\ locks[last.symbol] = last.symbol

\* thread r is refused in this step: its pass finds the cone blocked and it
\* goes to wait, or its acquire returns Blocked, at once or on a timeout
Refused(r) ==
    /\ req[r].pc \in {"pass", "asleep"}
    /\ \/ req[r].pc = "pass" /\ req'[r].pc = "asleep"
       \/ /\ req'[r].pc = "idle"
          /\ last'.op = "LockSymbol" /\ last'.by = r /\ last'.result = "Blocked"

\* C16: an acquire that is refused leaves the lock table as it found it
C16_BlockedLeavesTable ==
    [][\A r \in ReqIds : Refused(r) => locks' = locks]_vars

\* an acquire has come back Blocked from a cone whose first key was free
\* and whose second key another primary holds
C16_Witness ==
    /\ last.op = "LockSymbol" /\ last.result = "Blocked"
    /\ req[last.by].pc = "idle"
    /\ locks[last.symbol] = NoKey
    /\ \E k \in ConeOf(last.symbol) : locks[k] \notin {NoKey, last.symbol}

\* thread r's release_symbol takes its entries out in this step
Unlocks(r) ==
    req[r].pc = "idle" /\ req'[r].pc = "notify" /\ last'.op = "UnlockSymbol" /\ last'.by = r

\* C17: release_symbol(key) removes the entries whose primary is key, leaves
\* every entry of another primary in place, and its notify_all leaves no
\* thread waiting on the condvar
C17_ReleaseFrame ==
    [][\A r \in ReqIds :
          /\ Unlocks(r) =>
                \A k \in Keys : locks'[k] = IF locks[k] = last'.symbol THEN NoKey ELSE locks[k]
          /\ (req[r].pc = "notify" /\ req'[r].pc = "idle") =>
                \A w \in ReqIds : req'[w].pc # "asleep"]_vars

\* a release has freed the cone a waiter was refused, and left the entries
\* of a third primary in the table
C17_Witness ==
    /\ last.op = "UnlockSymbol"
    /\ req[last.by].pc = "notify"
    /\ \A k \in Keys : locks[k] # last.symbol
    /\ \E w \in ReqIds : /\ req[w].pc = "asleep"
                         /\ req[w].blocked_by = last.symbol
                         /\ ConeFree(req[w].key)
    /\ \E k \in Keys : locks[k] \notin {NoKey, last.symbol}

(***************************************************************************)
(* The claims about the exits of the write requests.                       *)
(***************************************************************************)
\* the keys of the table that request r was the last to insert
InsertedBy(r) == {k \in Keys : locks[k] # NoKey /\ hist.owner[k] = r}

\* C18: a write request that has returned, on whichever path (written,
\* write failed, re-extraction failed, Blocked part-way through its
\* symbols), has left no entry that it inserted in the lock table
C18_LocksReleasedOnExit ==
    \A r \in ReqIds : req[r].pc = "done" => InsertedBy(r) = {}

\* a request that took locks has returned without a write while the other
\* request is between its acquire and its release
C18_Witness ==
    \E r, o \in ReqIds :
       /\ r # o
       /\ req[r].pc = "done" /\ req[r].cone # {} /\ ~req[r].wrote
       /\ req[r].result.kind \in {"Blocked", "Err"}
       /\ InSpan(o) /\ InsertedBy(o) # {}

\* request r has returned an error
Failed(r) == req[r].pc = "done" /\ req[r].result.kind \in {"Blocked", "Err"}

\* C19: a request that has returned an error (a refused or failed write, a
\* Blocked lock, a failing step of an ordered write) has written no file and
\* has re-extracted nothing into the graph
C19_FailedRequestNoEffect ==
    \A r \in ReqIds : Failed(r) => ~req[r].wrote /\ ~req[r].rebuilt

(***************************************************************************)
(* The claim about add_file.                                               *)
(***************************************************************************)
\* the File nodes of a path, removed ones too
FileNodes(G, path) ==
    {k \in DOMAIN G.nodes : G.nodes[k].kind = "File" /\ G.nodes[k].file_path = path}

\* C20: add_file on a path that has a File node already, soft-deleted by
\* remove_file or not, returns the id of the first File node of the path
\* with its removed flag cleared and creates no further File node
C20_AddFileIdempotent ==
    last.op = "add_file" =>
       LET olds == FileNodes(prev, last.file)
           first == CHOOSE k \in olds : \A j \in olds : k <= j
       IN  olds # {} => /\ g.file_index[last.file] = first
                        /\ ~g.nodes[first].removed
                        /\ FileNodes(g, last.file) = olds

(***************************************************************************)
(* The claims about the graph mutations, continued.                        *)
(***************************************************************************)
\* n is the one live symbol of its name in the file of E, and E holds that
\* name once, with another snippet
ChangedIn(G, n, E) ==
    /\ n \in LiveSymbols(G)
    /\ G.nodes[n].kind # "Import"
    /\ G.nodes[n].file_path = E.file_path
    /\ \A m \in LiveSymbols(G) :
          (G.nodes[m].file_path = E.file_path /\ G.nodes[m].name = G.nodes[n].name) => m = n
    /\ Cardinality({i \in DOMAIN E.symbols : E.symbols[i].name = G.nodes[n].name}) = 1
    /\ \E i \in DOMAIN E.symbols :
          /\ E.symbols[i].name = G.nodes[n].name
          /\ E.symbols[i].code_snippet # G.nodes[n].code_snippet

\* the calls of E made by name whose callee names a live symbol of G
ResolvedCalls(G, E, name) ==
    {k \in DOMAIN E.calls :
        /\ E.calls[k].caller = name
        /\ \E m \in LiveSymbols(G) : G.nodes[m].name = E.calls[k].callee}

OutCalls(G, n) == {e \in DOMAIN G.edges : G.edges[e].source = n /\ G.edges[e].kind = "Calls"}

\* C21: update_file_incremental(f, E) keeps the node id and the incoming
\* Defines, Contains and Calls edges of a symbol of f whose snippet differs
\* in E, and leaves it with the Calls edges and call_lines of its calls in
\* E and with none of the old body
C21_ChangedRewired ==
    last.op = "update" =>
       \A n \in DOMAIN prev.nodes :
          ChangedIn(prev, n, last.extraction) =>
             LET E == last.extraction
                 name == prev.nodes[n].name
                 rc == ResolvedCalls(g, E, name)
             IN  /\ n \in LiveSymbols(g)
                 /\ g.nodes[n].name = name
                 /\ g.qualified_index[<<E.file_path, name>>] = n
                 /\ \E i \in DOMAIN E.symbols :
                       /\ E.symbols[i].name = name
                       /\ g.nodes[n].code_snippet = E.symbols[i].code_snippet
                 /\ \A m \in DOMAIN prev.nodes : \A k \in {"Defines", "Contains", "Calls"} :
                       ~Rewritten(prev, m, E) =>
                          EdgeCount(g, m, n, k) >= EdgeCount(prev, m, n, k)
                 /\ Cardinality(OutCalls(g, n)) = Cardinality(rc)
                 /\ \A e \in OutCalls(g, n) :
                       \E k \in rc : g.nodes[g.edges[e].target].name = E.calls[k].callee
                 /\ Range(g.nodes[n].call_lines)
                       = UNION {E.calls[k].line..E.calls[k].line_end : k \in rc}

\* a live node of G has this name, file and first line
ShownLive(G, name, file, line) ==
    \E n \in LiveNodes(G) :
       /\ G.nodes[n].name = name
       /\ G.nodes[n].file_path = file
       /\ G.nodes[n].line_start = line

\* every entry of a search result is read off live nodes of G
SearchResultLive(G, r) ==
    /\ \E n \in LiveSymbols(G) :
          /\ G.nodes[n].name = r.symbol
          /\ G.nodes[n].file_path = r.file
          /\ G.nodes[n].line_start = r.line_start
          /\ G.nodes[n].code_snippet = r.code
    /\ \A j \in DOMAIN r.calls :
          ShownLive(G, r.calls[j].name, r.calls[j].file, r.calls[j].line)
    /\ \A j \in DOMAIN r.called_by :
          ShownLive(G, r.called_by[j].name, r.called_by[j].file, r.called_by[j].line)
    /\ \A j \in DOMAIN r.imports :
          \E n \in LiveSymbols(G) :
             /\ G.nodes[n].kind = "Import"
             /\ G.nodes[n].name = r.imports[j]

DependencyLive(G, d) == ShownLive(G, d.symbol, d.file, d.line)

\* the public reads of G report live nodes only
ReadsLiveOnly(G) ==
    /\ \A name \in AllNames :
          /\ \A limit \in 1..MaxLimit :
                LET rs == search(G, name, limit)
                IN  \A i \in DOMAIN rs : SearchResultLive(G, rs[i])
          /\ LET ds == dependents(G, name)
             IN  \A i \in DOMAIN ds : DependencyLive(G, ds[i])
          /\ LET ds == dependencies(G, name)
             IN  \A i \in DOMAIN ds : DependencyLive(G, ds[i])
          /\ \A file \in Files :
                find_qualified(G, file, name) \in {None} \cup LiveSymbols(G)
    /\ \A file \in Files :
          /\ Range(symbols_in_file(G, file)) \subseteq LiveSymbols(G)
          /\ \A start \in 1..(2 * MaxItems + 1) : \A end \in {start, 2 * MaxItems + 1} :
                Range(symbols_in_range(G, file, start, end)) \subseteq LiveSymbols(G)
    /\ stats(G).file_count = Cardinality(LiveNodes(G) \ LiveSymbols(G))
    /\ stats(G).symbol_count = Cardinality(LiveSymbols(G))
    /\ stats(G).unique_symbol_names
          = Cardinality({G.nodes[n].name : n \in LiveSymbols(G)})

\* file was removed from G and is not in it now
WasRemoved(G, file) ==
    /\ G.file_index[file] = None
    /\ \E n \in DOMAIN G.nodes :
          G.nodes[n].removed /\ G.nodes[n].kind = "File" /\ G.nodes[n].file_path = file

\* the results of search(G, name, limit) that lie in file
SearchInFile(G, name, limit, file) ==
    {i \in DOMAIN search(G, name, limit) : search(G, name, limit)[i].file = file}

\* C22: no public read (search, dependents, dependencies, symbols_in_file,
\* symbols_in_range, find_qualified, stats) reports a removed node, as a
\* result or as a caller or callee; and once a removed file is added again,
\* search by name gives one result for each of its symbols, with the new body
C22_RemovedNeverReported ==
    /\ ReadsLiveOnly(g)
    /\ (last.op = "update" /\ WasRemoved(prev, last.file)) =>
          \A s \in DOMAIN last.extraction.symbols :
             LET sym == last.extraction.symbols[s]
                 hits == SearchInFile(g, sym.name, MaxLimit, last.file)
             IN  Cardinality({t \in DOMAIN last.extraction.symbols :
                                 last.extraction.symbols[t].name = sym.name}) = 1
                 => /\ Cardinality(hits) = 1
                    /\ \A i \in hits : search(g, sym.name, MaxLimit)[i].code = sym.code_snippet

(***************************************************************************)
(* The graph of a running daemon: build_graph has scanned a project whose  *)
(* file a.rs registers a route and requests it; files are then rebuilt     *)
(* (rebuild_file) and removed (remove_file) as they change on disk.        *)
(***************************************************************************)
BuiltInit ==
    /\ \E src \in ApiSources :
          g = NormalizeBorn(build_from_extractions(EmptyGraph, <<extract_file("a.rs", src)>>))
    /\ prev = EmptyGraph
    /\ last = [op |-> "new"]
    /\ locks = Idle.locks
    /\ rw = Idle.rw
    /\ req = Idle.req
    /\ disk = Idle.disk
    /\ hist = Idle.hist
    /\ ops = 0

MaxEvents == 4

\* one call on the built graph
Event(G, what) ==
    /\ ops < MaxEvents
    /\ ops' = ops + 1
    /\ g' = NormalizeBorn(G)
    /\ prev' = g
    /\ last' = what
    /\ UNCHANGED <<locks, rw, req, disk, hist>>

\* what an edit leaves on disk: both functions in a.rs, at most one in b.rs
EditedSources(file) ==
    IF file = "a.rs"
    THEN {src \in PlainSources :
             Len(src.items) = 2 /\ src.items[1].name # src.items[2].name}
    ELSE SmallSources

FileModified ==
    \E file \in Files :
       \E src \in EditedSources(file) :
       LET E == extract_file(file, src) IN
       \E order \in Orders(NamesOf(E.symbols)) :
          Event(update_file_incremental(g, file, E, order),
                [op |-> "update", file |-> file, extraction |-> E])

FileRemoved ==
    \E path \in Files :
       Event(remove_file(g, path), [op |-> "remove", file |-> path])

BuiltNext == FileModified \/ FileRemoved

SpecBuilt == BuiltInit /\ [][BuiltNext]_vars

\* the live nodes of G that belong to file
NodesOfFile(G, file) == {n \in LiveNodes(G) : G.nodes[n].file_path = file}

\* the entries of an index sequence that are not nodes of file
NotOfFile(G, file, indexes) ==
    LET Other(idx) == G.nodes[idx].file_path # file
    IN  SeqFilter(Other, indexes)

\* C23: remove_file(f) changes only the nodes of f: the nodes of the other
\* files keep liveness, attributes and index entries, no edge is deleted,
\* the live file and symbol counts drop by the number of f's File nodes and
\* of f's symbol and import nodes; on a path that is not in the graph it
\* changes nothing
C23_RemoveFileFrame ==
    last.op = "remove" =>
       LET f == last.file
           F == NodesOfFile(prev, f)
       IN  IF prev.file_index[f] = None THEN g = prev
           ELSE /\ Len(g.nodes) = Len(prev.nodes)
                /\ \A n \in DOMAIN prev.nodes :
                      prev.nodes[n].file_path # f => g.nodes[n] = prev.nodes[n]
                /\ \A n \in F : g.nodes[n].removed
                /\ g.edges = prev.edges
                /\ stats(g).total_edges = stats(prev).total_edges
                /\ \A name \in AllNames :
                      NotOfFile(g, f, g.symbol_index[name])
                         = NotOfFile(prev, f, prev.symbol_index[name])
                /\ \A other \in Files \ {f} :
                      /\ g.file_index[other] = prev.file_index[other]
                      /\ \A name \in AllNames :
                            g.qualified_index[<<other, name>>]
                               = prev.qualified_index[<<other, name>>]
                /\ stats(g).file_count
                      = stats(prev).file_count
                           - Cardinality({n \in F : prev.nodes[n].kind = "File"})
                /\ stats(g).symbol_count
                      = stats(prev).symbol_count
                           - Cardinality({n \in F : prev.nodes[n].kind # "File"})

\* the live nodes of G, as a bag of their data
LiveNodeBag(G) ==
    LET Live(n) == ~n.removed
    IN  BagOf(SeqFilter(Live, G.nodes))

\* the edges of G between live nodes, as a bag of (source data, target data, kind)
LiveEdgeBag(G) ==
    LET Live(e) == is_live(G, e.source) /\ is_live(G, e.target)
        es == SeqFilter(Live, G.edges)
    IN  BagOf([i \in DOMAIN es |->
                  <<G.nodes[es[i].source], G.nodes[es[i].target], es[i].kind>>])

\* find_qualified as the data of the node it returns
QualifiedData(G, file, name) ==
    IF find_qualified(G, file, name) = None THEN <<>>
    ELSE <<G.nodes[find_qualified(G, file, name)]>>

\* C24: compact() preserves the live graph: search, dependents, dependencies,
\* symbols_in_file, find_qualified and the file and symbol counts of stats
\* return what they returned before, the live nodes keep their data
\* (call_lines included), no removed node remains, and each edge between
\* live nodes is there as many times as before
C24_CompactPreservesLive ==
    last.op = "compact" =>
       /\ \A name \in AllNames :
             /\ \A limit \in 1..MaxLimit :
                   BagOf(search(g, name, limit)) = BagOf(search(prev, name, limit))
             /\ BagOf(dependents(g, name)) = BagOf(dependents(prev, name))
             /\ BagOf(dependencies(g, name)) = BagOf(dependencies(prev, name))
             /\ \A file \in Files :
                   QualifiedData(g, file, name) = QualifiedData(prev, file, name)
       /\ \A file \in Files : SymbolsInFileBag(g, file) = SymbolsInFileBag(prev, file)
       /\ stats(g).file_count = stats(prev).file_count
       /\ stats(g).symbol_count = stats(prev).symbol_count
       /\ LiveNodeBag(g) = LiveNodeBag(prev)
       /\ \A n \in DOMAIN g.nodes : ~g.nodes[n].removed
       /\ LiveEdgeBag(g) = LiveEdgeBag(prev)
       /\ Len(g.edges) = Cardinality({e \in DOMAIN prev.edges :
                                        /\ is_live(prev, prev.edges[e].source)
                                        /\ is_live(prev, prev.edges[e].target)})

(***************************************************************************)
(* The rebuilds of the daemon's graph.  Three kinds of thread change it:   *)
(* a client write (with_file_lock: write_fn, then graph.write() and        *)
(* rebuild_file), a Rebuild request (build_graph, then graph.write() and   *)
(* the assignment of the new graph) and a watcher flush (graph.write() and *)
(* rebuild_file).  hist counts the writes to each file (version) and       *)
(* remembers the version of each file the graph was last extracted from    *)
(* (seen).                                                                 *)
(***************************************************************************)
RebuildThread(kind, file, content) ==
    [kind |-> kind, file |-> file, content |-> content, pc |-> "start",
     snapshot |-> InitialDisk, read |-> [f \in Files |-> 0], read_locked |-> FALSE]

RebuildThreads ==
    {RebuildThread("write", f, c) : f \in Files, c \in DaemonContents}
    \cup {RebuildThread("rebuild", "a.rs", InitialDisk["a.rs"])}
    \cup {RebuildThread("watch", f, InitialDisk[f]) : f \in Files}

RebuildInit ==
    /\ disk = InitialDisk
    /\ g = NormalizeBorn(build_from_extractions(EmptyGraph,
               <<extract_file("a.rs", InitialDisk["a.rs"]),
                 extract_file("b.rs", InitialDisk["b.rs"])>>))
    /\ prev = EmptyGraph
    /\ last = [op |-> "serve"]
    /\ ops = 0
    /\ locks = NoLocks
    /\ rw = {}
    /\ hist = [version |-> [f \in Files |-> 0], seen |-> [f \in Files |-> 0]]
    /\ req \in [ReqIds -> RebuildThreads]

\* write_fn of a client write, under the file's symbol locks
CWrite(r) ==
    /\ req[r].kind = "write" /\ req[r].pc = "start"
    /\ disk' = [disk EXCEPT ![req[r].file] = req[r].content]
    /\ hist' = [hist EXCEPT !.version[req[r].file] = @ + 1]
    /\ req' = [req EXCEPT ![r].pc = "written"]
    /\ UNCHANGED <<g, prev, last, locks, rw, ops>>

\* Request::Rebuild: build_graph(roots) reads every file
RScan(r) ==
    /\ req[r].kind = "rebuild" /\ req[r].pc = "start"
    /\ req' = [req EXCEPT ![r].pc = "scanned", ![r].snapshot = disk,
                          ![r].read = hist.version, ![r].read_locked = r \in rw]
    /\ UNCHANGED <<g, prev, last, locks, rw, disk, hist, ops>>

\* graph.write()
TakeGraphLock(r) ==
    /\ \/ req[r].kind = "write" /\ req[r].pc = "written"
       \/ req[r].kind = "rebuild" /\ req[r].pc = "scanned"
       \/ req[r].kind = "watch" /\ req[r].pc = "start"
    /\ rw = {}
    /\ rw' = {r}
    /\ req' = [req EXCEPT ![r].pc = "locked"]
    /\ UNCHANGED <<g, prev, last, locks, disk, hist, ops>>

\* rebuild_file(&mut g, file_path) and the end of the guard's scope
RebuildFile(r) ==
    /\ req[r].kind \in {"write", "watch"} /\ req[r].pc = "locked"
    /\ \E order \in Orders(NamesOf(extract_file(req[r].file, disk[req[r].file]).symbols)) :
          g' = NormalizeBorn(rebuild_file(g, req[r].file, disk, order))
    /\ prev' = g
    /\ last' = [op |-> "rebuild_file", by |-> r, file |-> req[r].file]
    /\ hist' = [hist EXCEPT !.seen[req[r].file] = hist.version[req[r].file]]
    /\ req' = [req EXCEPT ![r].pc = "done", ![r].read_locked = r \in rw,
                          ![r].read = [@ EXCEPT ![req[r].file] = hist.version[req[r].file]]]
    /\ rw' = {}
    /\ UNCHANGED <<locks, disk, ops>>

\* *g = new_graph and the end of the guard's scope
RApply(r) ==
    /\ req[r].kind = "rebuild" /\ req[r].pc = "locked"
    /\ \E o \in Orders(Files) :
          g' = NormalizeBorn(build_from_extractions(EmptyGraph,
                  <<extract_file(o[1], req[r].snapshot[o[1]]),
                    extract_file(o[2], req[r].snapshot[o[2]])>>))
    /\ prev' = g
    /\ last' = [op |-> "rebuild", by |-> r]
    /\ hist' = [hist EXCEPT !.seen = req[r].read]
    /\ req' = [req EXCEPT ![r].pc = "done"]
    /\ rw' = {}
    /\ UNCHANGED <<locks, disk, ops>>

RebuildNext ==
    \E r \in ReqIds : CWrite(r) \/ RScan(r) \/ TakeGraphLock(r) \/ RebuildFile(r) \/ RApply(r)

SpecRebuild == RebuildInit /\ [][RebuildNext]_vars

\* r has read the files its rebuild extracts
HasRead(r) ==
    IF req[r].kind = "rebuild" THEN req[r].pc \in {"scanned", "locked", "done"}
    ELSE req[r].pc = "done"

\* C25: every rebuild of the graph (after a client write, for a Rebuild
\* request, by the watcher) reads its files while it holds the graph write
\* lock, and no rebuild replaces what was extracted from a newer version of
\* a file by what was extracted from an older one
C25_RebuildsSerialized ==
    /\ [](\A r \in ReqIds : HasRead(r) => req[r].read_locked)
    /\ [][\A f \in Files : hist'.seen[f] >= hist.seen[f]]_vars

(***************************************************************************)
(* topo_sort_ops on its own: the graph of a scanned project and a list of  *)
(* up to MaxWrites operations, each on a symbol of Names or on none.       *)
(***************************************************************************)
MaxWrites == 3

WriteOps == {WriteOp("a.rs", <<>>, symbol) : symbol \in Names \cup {""}}

OpLists == UNION {[1..n -> WriteOps] : n \in 0..MaxWrites}

TopoInit ==
    /\ \E extractions \in BuildInputs :
          g = NormalizeBorn(build_from_extractions(EmptyGraph, extractions))
    /\ prev = EmptyGraph
    /\ last = [op |-> "new"]
    /\ locks = Idle.locks
    /\ rw = Idle.rw
    /\ req = Idle.req
    /\ disk = Idle.disk
    /\ hist = Idle.hist
    /\ ops = 0

TopoSort ==
    /\ last.op = "new"
    /\ \E operations \in OpLists :
          last' = [op |-> "topo_sort_ops", operations |-> operations,
                   order |-> topo_sort_ops(g, operations)]
    /\ UNCHANGED <<g, prev, locks, rw, req, disk, hist, ops>>

SpecTopo == TopoInit /\ [][TopoSort]_vars

\* symbol a has symbol b among its dependencies in G
DependsOn(G, a, b) ==
    a # "" /\ b # "" /\ \E i \in DOMAIN dependencies(G, a) : dependencies(G, a)[i].symbol = b

\* a chain of dependencies of G through the symbols S leads from a to b
RECURSIVE ReachesIn(_, _, _, _, _)
ReachesIn(G, S, a, b, k) ==
    \/ DependsOn(G, a, b)
    \/ k > 0 /\ \E c \in S : DependsOn(G, a, c) /\ ReachesIn(G, S, c, b, k - 1)

\* the symbols the operations write
SymbolsOf(operations) == {operations[i].symbol : i \in DOMAIN operations} \ {""}

Reaches(G, operations, a, b) ==
    ReachesIn(G, SymbolsOf(operations), a, b, Cardinality(SymbolsOf(operations)))

\* position of operation i in order
PosIn(order, i) == CHOOSE p \in DOMAIN order : order[p] = i

\* the operations a cycle leaves over: on a cycle, or depending on one
LeftOver(G, operations) ==
    {i \in DOMAIN operations :
        \E c \in SymbolsOf(operations) :
           /\ Reaches(G, operations, c, c)
           /\ operations[i].symbol = c \/ Reaches(G, operations, operations[i].symbol, c)}

\* C26: the order of an ordered write holds every operation once; an
\* operation comes after the operations on the dependencies of its symbol,
\* unless the two symbols lie on a common cycle; the operations a cycle
\* leaves over come last, in input order; with no dependencies the order is
\* the input order
C26_TopoOrder ==
    last.op = "topo_sort_ops" =>
       LET operations == last.operations
           order == last.order
           n == Len(operations)
           sym(i) == operations[i].symbol
           left == LeftOver(g, operations)
       IN  /\ Len(order) = n
           /\ Range(order) = 1..n
           /\ \A a \in 1..n : \A b \in 1..n :
                 (DependsOn(g, sym(a), sym(b)) /\ ~Reaches(g, operations, sym(b), sym(a)))
                    => PosIn(order, b) < PosIn(order, a)
           /\ \A i \in left : \A j \in 1..n :
                 /\ j \notin left => PosIn(order, j) < PosIn(order, i)
                 /\ (j \in left /\ j < i) => PosIn(order, j) < PosIn(order, i)
           /\ (\A a \in 1..n : \A b \in 1..n : ~DependsOn(g, sym(a), sym(b)))
                 => order = [i \in 1..n |-> i]

(***************************************************************************)
(* replace_range on the text of a file (write.rs).  A text is a sequence   *)
(* of characters; NL is the line feed.                                     *)
(***************************************************************************)
NL == "\n"

MaxChars == 4

MaxNew == 3

MaxLineNo == 3

Chars == {"a", "b", NL}

TextsUpTo(n) == UNION {[1..k -> Chars] : k \in 0..n}

ends_with_newline(text) == text # <<>> /\ text[Len(text)] = NL

\* str::lines: the text split at each line feed, a last empty piece dropped
RECURSIVE lines_from(_, _, _)
lines_from(text, i, line) ==
    IF i > Len(text) THEN (IF line = <<>> THEN <<>> ELSE <<line>>)
    ELSE IF text[i] = NL THEN <<line>> \o lines_from(text, i + 1, <<>>)
    ELSE lines_from(text, i + 1, Append(line, text[i]))

lines(text) == lines_from(text, 1, <<>>)

\* push_str(line); push('\n') for each line
RECURSIVE push_lines(_)
push_lines(ls) ==
    IF ls = <<>> THEN <<>> ELSE Head(ls) \o <<NL>> \o push_lines(Tail(ls))

\* [ok |-> FALSE] is Err(InvalidInput); text is what fs::write leaves in the file
replace_range_text(original, start_line, end_line, new_content) ==
    LET ls == lines(original)
        total_lines == Len(ls)
        end == IF end_line < total_lines THEN end_line ELSE total_lines
        result == push_lines(SubSeq(ls, 1, start_line - 1))
                  \o new_content
                  \o (IF ends_with_newline(new_content) THEN <<>> ELSE <<NL>>)
                  \o push_lines(SubSeq(ls, end + 1, total_lines))
    IN  IF start_line = 0 \/ end_line = 0 \/ start_line > end_line
        THEN [ok |-> FALSE, text |-> original]
        ELSE IF start_line > total_lines
        THEN [ok |-> FALSE, text |-> original]
        ELSE [ok |-> TRUE,
              text |-> IF ~ends_with_newline(original) /\ ends_with_newline(result)
                       THEN SubSeq(result, 1, Len(result) - 1)
                       ELSE result]

RangeInit ==
    /\ disk \in TextsUpTo(MaxChars)
    /\ g = EmptyGraph
    /\ prev = EmptyGraph
    /\ last = [op |-> "new"]
    /\ locks = Idle.locks
    /\ rw = Idle.rw
    /\ req = Idle.req
    /\ hist = Idle.hist
    /\ ops = 0

ReplaceRange ==
    /\ last.op = "new"
    /\ \E start_line \in 0..MaxLineNo, end_line \in 0..MaxLineNo,
          new_content \in TextsUpTo(MaxNew) :
          LET r == replace_range_text(disk, start_line, end_line, new_content)
          IN  /\ disk' = r.text
              /\ last' = [op |-> "replace_range", start_line |-> start_line,
                          end_line |-> end_line, new_content |-> new_content,
                          original |-> disk, ok |-> r.ok]
    /\ UNCHANGED <<g, prev, locks, rw, req, hist, ops>>

SpecRange == RangeInit /\ [][ReplaceRange]_vars

\* C27: replace_range(path, s, e, new) on a file of L lines fails and leaves
\* the file as it was when s = 0, e < s or s > L; otherwise the file holds
\* the original lines 1..s-1, then the lines of new, then the original lines
\* min(e, L)+1..L, and ends with a line feed exactly if the original did
C27_ReplaceRange ==
    last.op = "replace_range" =>
       LET ls == lines(last.original)
           L == Len(ls)
           s == last.start_line
           e == last.end_line
           m == IF e < L THEN e ELSE L
       IN  IF s = 0 \/ e < s \/ s > L
           THEN ~last.ok /\ disk = last.original
           ELSE /\ last.ok
                /\ lines(disk) = SubSeq(ls, 1, s - 1) \o lines(last.new_content)
                                    \o SubSeq(ls, m + 1, L)
                /\ ends_with_newline(disk) = ends_with_newline(last.original)

(***************************************************************************)
(* slice_code (query/slice.rs).  The snippet is taken as the list of its   *)
(* lines (code.lines()); the result's code is the list of the lines        *)
(* pushed to it.  A snippet is a body of calls with at most one return     *)
(* statement.                                                              *)
(***************************************************************************)
SliceThreshold == 10

MaxSnippet == 12

MaxCallLines == 2

LineStarts == {1, 98}

Ellipsis == "    ..."

\* format!("{:>4}: {}", abs_line_num, line)
FormatLine(abs_line_num, line) ==
    (IF abs_line_num < 10 THEN "   "
     ELSE IF abs_line_num < 100 THEN "  "
     ELSE IF abs_line_num < 1000 THEN " " ELSE "")
    \o ToString(abs_line_num) \o ": " \o line

CallText == "    f();"

ReturnText == "    return 0;"

\* trimmed.starts_with("return ") and the like
is_return(line) == line = ReturnText

Snippets ==
    {[i \in 1..n |-> IF i = ret THEN ReturnText ELSE CallText] :
        n \in (SliceThreshold - 1)..MaxSnippet, ret \in 0..MaxSnippet}

\* slice_code that numbers the lines from 1
slice_code_relative_numbers(code_lines, call_lines, line_start) ==
    LET n == Len(code_lines)
        Called(i) == \E k \in DOMAIN call_lines :
                        /\ call_lines[k] >= line_start
                        /\ call_lines[k] - line_start < n
                        /\ i - 1 \in {call_lines[k] - line_start - 1,
                                      call_lines[k] - line_start,
                                      call_lines[k] - line_start + 1}
        keep == [i \in 1..n |-> i = 1 \/ i = n \/ Called(i) \/ is_return(code_lines[i])]
        RECURSIVE Emit(_, _)
        Emit(i, in_gap) ==
            IF i > n THEN <<>>
            ELSE IF keep[i]
            THEN (IF in_gap THEN <<Ellipsis>> ELSE <<>>)
                 \o <<FormatLine(i, code_lines[i])>> \o Emit(i + 1, FALSE)
            ELSE Emit(i + 1, TRUE)
    IN  IF n <= SliceThreshold \/ call_lines = <<>>
        THEN [code |-> code_lines, total_lines |-> n, shown_lines |-> n,
              call_count |-> Len(call_lines), was_sliced |-> FALSE]
        ELSE [code |-> Emit(1, FALSE), total_lines |-> n,
              shown_lines |-> Cardinality({i \in 1..n : keep[i]}),
              call_count |-> Len(call_lines), was_sliced |-> TRUE]

slice_code(code_lines, call_lines, line_start) ==
    LET n == Len(code_lines)
        Called(i) == \E k \in DOMAIN call_lines :
                        /\ call_lines[k] >= line_start
                        /\ call_lines[k] - line_start < n
                        /\ i - 1 \in {call_lines[k] - line_start - 1,
                                      call_lines[k] - line_start,
                                      call_lines[k] - line_start + 1}
        keep == [i \in 1..n |-> i = 1 \/ i = n \/ Called(i) \/ is_return(code_lines[i])]
        RECURSIVE Emit(_, _)
        Emit(i, in_gap) ==
            IF i > n THEN <<>>
            ELSE IF keep[i]
            THEN (IF in_gap THEN <<Ellipsis>> ELSE <<>>)
                 \o <<FormatLine(line_start + i - 1, code_lines[i])>> \o Emit(i + 1, FALSE)
            ELSE Emit(i + 1, TRUE)
    IN  IF n <= SliceThreshold \/ call_lines = <<>>
        THEN [code |-> code_lines, total_lines |-> n, shown_lines |-> n,
              call_count |-> Len(call_lines), was_sliced |-> FALSE]
        ELSE [code |-> Emit(1, FALSE), total_lines |-> n,
              shown_lines |-> Cardinality({i \in 1..n : keep[i]}),
              call_count |-> Len(call_lines), was_sliced |-> TRUE]

SliceInit ==
    /\ g = EmptyGraph
    /\ prev = EmptyGraph
    /\ last = [op |-> "new"]
    /\ locks = Idle.locks
    /\ rw = Idle.rw
    /\ req = Idle.req
    /\ disk = Idle.disk
    /\ hist = Idle.hist
    /\ ops = 0

\* the call lines handed over: any lines from just above the symbol to just below
Slice ==
    /\ last.op = "new"
    /\ \E code_lines \in Snippets, line_start \in LineStarts :
       \E k \in 0..MaxCallLines :
       \E call_lines \in [1..k -> (line_start - 1)..(line_start + MaxSnippet)] :
          last' = [op |-> "slice_code", code_lines |-> code_lines,
                   call_lines |-> call_lines, line_start |-> line_start,
                   result |-> slice_code(code_lines, call_lines, line_start)]
    /\ UNCHANGED <<g, prev, locks, rw, req, disk, hist, ops>>

SpecSlice == SliceInit /\ [][Slice]_vars

\* the line numbers of the snippet whose formatted line is in out, in order
ShownNumbers(out, code_lines, line_start) ==
    {n \in line_start..(line_start + Len(code_lines) - 1) :
        \E p \in DOMAIN out : out[p] = FormatLine(n, code_lines[n - line_start + 1])}

\* C28: for a snippet of more than 10 lines with call lines, the output of
\* slice_code holds every call line within the symbol's range and the first
\* and the last line; every line it holds is a line of the snippet prefixed
\* with its absolute number, in order; exactly one separator stands between
\* two kept regions, none before the first or after the last
C28_SliceKeepsCalls ==
    (last.op = "slice_code" /\ Len(last.code_lines) > SliceThreshold
        /\ last.call_lines # <<>>) =>
       LET out == last.result.code
           code_lines == last.code_lines
           line_start == last.line_start
           line_end == line_start + Len(code_lines) - 1
           shown == ShownNumbers(out, code_lines, line_start)
           NumberAt(p) == CHOOSE n \in line_start..line_end :
                             out[p] = FormatLine(n, code_lines[n - line_start + 1])
           IsLine(p) == \E n \in line_start..line_end :
                           out[p] = FormatLine(n, code_lines[n - line_start + 1])
       IN  /\ \A k \in DOMAIN last.call_lines :
                 last.call_lines[k] \in line_start..line_end => last.call_lines[k] \in shown
           /\ line_start \in shown /\ line_end \in shown
           /\ \A p \in DOMAIN out : IsLine(p) \/ out[p] = Ellipsis
           /\ IsLine(1) /\ IsLine(Len(out))
           /\ \A p \in 1..(Len(out) - 1) :
                 /\ (IsLine(p) /\ IsLine(p + 1)) => NumberAt(p + 1) = NumberAt(p) + 1
                 /\ out[p] = Ellipsis =>
                       /\ IsLine(p + 1) /\ p > 1 /\ IsLine(p - 1)
                       /\ NumberAt(p + 1) > NumberAt(p - 1) + 1

\* a long snippet sliced around two call sites, with lines left out
C28_Witness ==
    /\ last.op = "slice_code"
    /\ last.result.was_sliced
    /\ Len(last.call_lines) = 2
    /\ last.call_lines[1] \in (last.line_start + 2)..(last.line_start + 3)
    /\ last.call_lines[2] = last.line_start + Len(last.code_lines) - 4
    /\ Cardinality({p \in DOMAIN last.result.code : last.result.code[p] = Ellipsis}) = 2

(***************************************************************************)
(* The cross-language API join on its own: a.rs registers a route in foo,  *)
(* b.rs requests a URL in bar.  The extractor hands normalize_url of the   *)
(* URL in the source to the graph (parser/queries/api.rs), which joins on  *)
(* normalize_api_url of it.                                                *)
(***************************************************************************)
Letters == {"u", "U", "x", "X", "i", "p", "a", "r", "m"}

Digits == {"4", "2"}

is_alphabetic(c) == c \in Letters

is_alphanumeric(c) == c \in Letters \cup Digits

\* drop the characters of a name: alphanumeric or "_"
RECURSIVE SkipName(_)
SkipName(rest) ==
    IF rest # <<>> /\ (is_alphanumeric(Head(rest)) \/ Head(rest) = "_")
    THEN SkipName(Tail(rest)) ELSE rest

\* drop characters up to and including the "}" that closes depth open braces
RECURSIVE SkipBraces(_, _)
SkipBraces(rest, depth) ==
    IF rest = <<>> THEN <<>>
    ELSE IF Head(rest) = "{" THEN SkipBraces(Tail(rest), depth + 1)
    ELSE IF Head(rest) = "}"
    THEN (IF depth = 1 THEN Tail(rest) ELSE SkipBraces(Tail(rest), depth - 1))
    ELSE SkipBraces(Tail(rest), depth)

RECURSIVE normalize_url_loop(_, _)
normalize_url_loop(rest, result) ==
    IF rest = <<>> THEN result
    ELSE LET c == Head(rest)
             chars == Tail(rest)
             peek_alphabetic == chars # <<>> /\ is_alphabetic(Head(chars))
         IN  IF c = "{" THEN normalize_url_loop(SkipThrough(chars, "}"), result \o Param)
             ELSE IF c = "<" THEN normalize_url_loop(SkipThrough(chars, ">"), result \o Param)
             ELSE IF c = "$" /\ chars # <<>> /\ Head(chars) = "{"
             THEN normalize_url_loop(SkipBraces(Tail(chars), 1), result \o Param)
             ELSE IF c \in {":", "*"} /\ peek_alphabetic
             THEN normalize_url_loop(SkipName(chars), result \o Param)
             ELSE normalize_url_loop(chars, Append(result, c))

normalize_url(url) == normalize_url_loop(url, <<>>)

\* the URLs in the sources: the five parameter styles, numbers, case and slashes
RawUrls ==
    {<<"/", "u", "/", "<", "i", ">">>,
     <<"/", "u", "/", "{", "i", "}">>,
     <<"/", "u", "/", ":", "i">>,
     <<"/", "u", "/", "$", "{", "i", "}">>,
     <<"/", "u", "/", "*", "i">>,
     <<"/", "u", "/", "4", "2">>,
     <<"/", "U", "/", "{", "i", "}", "/">>,
     <<"/", "u">>,
     <<"/", "U", "/">>,
     <<"/", "x", "/", "{", "i", "}">>,
     <<"/", "u", "/", "{", "i", "}", "/", "x">>,
     <<"/", "u", "/", "4", "/", "x">>}

\* one function and one endpoint in it
EndpointFile(path, name, kind, url) ==
    [extract_file(path, [items |-> <<[name |-> name, body |-> "v1"]>>, import |-> 0, api |-> 0])
       EXCEPT !.api_endpoints = <<[url |-> normalize_url(url), kind |-> kind, scope |-> name]>>]

ApiInit ==
    /\ g = EmptyGraph
    /\ prev = EmptyGraph
    /\ last = [op |-> "new"]
    /\ locks = Idle.locks
    /\ rw = Idle.rw
    /\ req = Idle.req
    /\ disk = Idle.disk
    /\ hist = Idle.hist
    /\ ops = 0

ApiBuild ==
    /\ last.op = "new"
    /\ \E provider \in RawUrls, consumer \in RawUrls, provider_first \in BOOLEAN :
          LET P == EndpointFile("a.rs", "foo", "Defines", provider)
              C == EndpointFile("b.rs", "bar", "Consumes", consumer)
          IN  /\ g' = NormalizeBorn(build_from_extractions(EmptyGraph,
                         IF provider_first THEN <<P, C>> ELSE <<C, P>>))
              /\ last' = [op |-> "api_build", provider |-> provider, consumer |-> consumer]
    /\ UNCHANGED <<prev, locks, rw, req, disk, hist, ops>>

SpecApi == ApiInit /\ [][ApiBuild]_vars

\* the segments of a URL between slashes, lower case, trailing slashes dropped
RECURSIVE SegmentsFrom(_, _)
SegmentsFrom(rest, seg) ==
    IF rest = <<>> THEN (IF seg = <<>> THEN <<>> ELSE <<seg>>)
    ELSE IF Head(rest) = "/"
    THEN (IF seg = <<>> THEN <<>> ELSE <<seg>>) \o SegmentsFrom(Tail(rest), <<>>)
    ELSE SegmentsFrom(Tail(rest), Append(seg, to_lowercase(Head(rest))))

SegmentsOf(url) == SegmentsFrom(url, <<>>)

IsParamSegment(seg) == seg # <<>> /\ seg[1] \in {"{", "<", "$", ":", "*"}

IsNumber(seg) == seg # <<>> /\ \A i \in DOMAIN seg : seg[i] \in Digits

\* the requested URL denotes the route: the fixed segments are the same and
\* a parameter of the route stands against a parameter or a number
SameRoute(consumer, provider) ==
    LET c == SegmentsOf(consumer)
        p == SegmentsOf(provider)
    IN  /\ Len(c) = Len(p)
        /\ \A i \in DOMAIN p :
              IF IsParamSegment(p[i]) THEN IsParamSegment(c[i]) \/ IsNumber(c[i])
              ELSE c[i] = p[i]

\* C29: after build_from_extractions an ApiCall edge leads from the scope of
\* a consumer endpoint to the scope of every provider endpoint whose URL
\* denotes the same route; /u/<i> and /u/42 are so linked
C29_ApiJoin ==
    (last.op = "api_build" /\ SameRoute(last.consumer, last.provider)) =>
       EdgeCount(g, g.qualified_index[<<"b.rs", "bar">>],
                 g.qualified_index[<<"a.rs", "foo">>], "ApiCall") = 1

(***************************************************************************)
(* The daemon's accept loop and Shutdown.  rw is the state of start_daemon *)
(* (the shutdown flag, the position of the accepting thread, the stream    *)
(* incoming() has yielded, the connections waiting on the listener), req   *)
(* the connections, disk the socket file and the pid file.  A client's     *)
(* connection and the loopback its handler makes share the client's number.*)
(***************************************************************************)
MaxClients == 3

ClientIds == 1 .. MaxClients

LoopbackOf(h) == MaxClients + h

ConnIds == 1 .. (2 * MaxClients)

NoConn == [kind |-> "None", pc |-> "idle", late |-> FALSE]

\* start_daemon up to the bind: pid file written, socket bound, flag false
DaemonInit ==
    /\ rw = [shutdown |-> FALSE, pc |-> "incoming", stream |-> 0, backlog |-> <<>>]
    /\ disk = [sock_path |-> TRUE, pid_file |-> TRUE]
    /\ req = [c \in ConnIds |-> NoConn]
    /\ g = EmptyGraph
    /\ prev = EmptyGraph
    /\ last = [op |-> "serve"]
    /\ locks = Idle.locks
    /\ hist = Idle.hist
    /\ ops = 0

\* UnixStream::connect(socket_path(root)) by connection c: queued on the
\* listener when the socket file is there, refused otherwise
connect(c, kind) ==
    IF disk.sock_path
    THEN /\ req' = [req EXCEPT ![c] = [kind |-> kind, pc |-> "queued", late |-> rw.shutdown]]
         /\ rw' = [rw EXCEPT !.backlog = Append(@, c)]
    ELSE /\ req' = [req EXCEPT ![c] = [kind |-> kind, pc |-> "refused", late |-> rw.shutdown]]
         /\ UNCHANGED rw

\* a client sends one request
SendRequest(c) ==
    /\ req[c].pc = "idle"
    /\ \E kind \in {"Ping", "Shutdown"} : connect(c, kind)
    /\ UNCHANGED <<g, prev, last, locks, disk, hist, ops>>

\* listener.incoming() yields the next stream
Incoming ==
    /\ rw.pc = "incoming"
    /\ rw.backlog # <<>>
    /\ rw' = [rw EXCEPT !.pc = "check", !.stream = Head(rw.backlog), !.backlog = Tail(@)]
    /\ UNCHANGED <<g, prev, last, locks, req, disk, hist, ops>>

\* the accepting thread dispatches every stream it is given
Break_never ==
    /\ rw.pc = "check"
    /\ rw' = [rw EXCEPT !.pc = "incoming", !.stream = 0]
    /\ req' = [req EXCEPT ![rw.stream].pc = "reading"]
    /\ UNCHANGED <<g, prev, last, locks, disk, hist, ops>>

\* if shutdown.load(Relaxed) { break; }: the stream is dropped
Break ==
    /\ rw.pc = "check"
    /\ rw.shutdown
    /\ rw' = [rw EXCEPT !.pc = "cleanup", !.stream = 0]
    /\ req' = [req EXCEPT ![rw.stream].pc = "dropped"]
    /\ UNCHANGED <<g, prev, last, locks, disk, hist, ops>>

\* thread::spawn(handle_client(stream, ..)) and back to incoming()
Spawn ==
    /\ rw.pc = "check"
    /\ ~rw.shutdown
    /\ rw' = [rw EXCEPT !.pc = "incoming", !.stream = 0]
    /\ req' = [req EXCEPT ![rw.stream].pc = "reading"]
    /\ UNCHANGED <<g, prev, last, locks, disk, hist, ops>>

\* handle_client of a request other than Shutdown: one line read, one
\* response written (a stream closed with no line is an error, logged)
HandleClient(h) ==
    /\ req[h].pc = "reading"
    /\ req[h].kind # "Shutdown"
    /\ req' = [req EXCEPT ![h].pc = "done"]
    /\ UNCHANGED <<g, prev, last, locks, rw, disk, hist, ops>>

\* Request::Shutdown: shutdown.store(true, Relaxed)
ShutdownStore(h) ==
    /\ req[h].pc = "reading"
    /\ req[h].kind = "Shutdown"
    /\ rw' = [rw EXCEPT !.shutdown = TRUE]
    /\ req' = [req EXCEPT ![h].pc = "stored"]
    /\ UNCHANGED <<g, prev, last, locks, disk, hist, ops>>

\* Request::Shutdown: let _ = UnixStream::connect(..); Response::Goodbye
ShutdownConnect(h) ==
    /\ req[h].pc = "stored"
    /\ IF disk.sock_path
       THEN /\ req' = [req EXCEPT ![h].pc = "done",
                                  ![LoopbackOf(h)] = [kind |-> "Loopback", pc |-> "queued",
                                                      late |-> rw.shutdown]]
            /\ rw' = [rw EXCEPT !.backlog = Append(@, LoopbackOf(h))]
       ELSE /\ req' = [req EXCEPT ![h].pc = "done",
                                  ![LoopbackOf(h)] = [kind |-> "Loopback", pc |-> "refused",
                                                      late |-> rw.shutdown]]
            /\ UNCHANGED rw
    /\ UNCHANGED <<g, prev, last, locks, disk, hist, ops>>

\* let _ = std::fs::remove_file(&sock_path)
RemoveSock ==
    /\ rw.pc = "cleanup"
    /\ disk' = [disk EXCEPT !.sock_path = FALSE]
    /\ rw' = [rw EXCEPT !.pc = "remove_pid"]
    /\ UNCHANGED <<g, prev, last, locks, req, hist, ops>>

\* let _ = std::fs::remove_file(&pid_file); Ok(())
RemovePid ==
    /\ rw.pc = "remove_pid"
    /\ disk' = [disk EXCEPT !.pid_file = FALSE]
    /\ rw' = [rw EXCEPT !.pc = "stopped"]
    /\ UNCHANGED <<g, prev, last, locks, req, hist, ops>>

DaemonNext ==
    \/ \E c \in ClientIds : SendRequest(c)
    \/ Incoming
    \/ Break
    \/ Spawn
    \/ \E h \in ClientIds : HandleClient(h)
    \/ \E h \in ClientIds : ShutdownStore(h)
    \/ \E h \in ClientIds : ShutdownConnect(h)
    \/ RemoveSock
    \/ RemovePid

SpecDaemon == DaemonInit /\ [][DaemonNext]_vars

\* the accepting thread runs: it is blocked only in incoming() with no
\* connection waiting.  Nothing is assumed of clients and handlers.
DaemonFairness ==
    /\ WF_vars(Incoming)
    /\ WF_vars(Break)
    /\ WF_vars(Spawn)
    /\ WF_vars(RemoveSock)
    /\ WF_vars(RemovePid)

SpecDaemonFair == SpecDaemon /\ DaemonFairness

ShutdownProcessed == \E h \in ClientIds : req[h].kind = "Shutdown" /\ req[h].pc = "done"

Dispatched(c) == req[c].pc \in {"reading", "stored", "done"}

DaemonStopped == rw.pc = "stopped" /\ ~disk.sock_path /\ ~disk.pid_file

\* C30: a loopback connection is made only with the flag set; no loopback
\* and no connection made with the flag set is ever dispatched; the
\* accepting thread, woken with the flag set, leaves the loop and drops the
\* stream; it is stopped only with both files removed; and once a Shutdown
\* request has been processed the daemon eventually stops
C30_ShutdownStops ==
    /\ [](\A c \in ConnIds : req[c].kind = "Loopback" => rw.shutdown /\ req[c].late)
    /\ [](\A c \in ConnIds : req[c].late => ~Dispatched(c))
    /\ [](rw.pc = "stopped" => ~disk.sock_path /\ ~disk.pid_file)
    /\ [][(rw.pc = "check" /\ rw.shutdown /\ rw'.pc # "check")
            => (rw'.pc = "cleanup" /\ req'[rw.stream].pc = "dropped")]_vars
    /\ (ShutdownProcessed ~> DaemonStopped)

\* a Shutdown was processed, its loopback woke the accepting thread, and the
\* daemon stopped with a later client connection never dispatched
C30_Witness ==
    /\ DaemonStopped
    /\ \E h \in ClientIds :
          /\ req[h].kind = "Shutdown" /\ req[h].pc = "done"
          /\ req[LoopbackOf(h)].pc = "dropped"
    /\ \E c \in ClientIds : req[c].late /\ req[c].pc = "queued"

(***************************************************************************)
(* is_locked and the file-level calls of the lock manager.                 *)
(***************************************************************************)
\* locks.keys().any(|k| k.file == file)
is_locked(table, file) == \E k \in Keys : table[k] # NoKey /\ k[1] = file

\* thread r has just come back from release(f), or from the release_symbol
\* of the file key that the drop of a LockGuard for f runs
FileReleased(r, f) ==
    /\ req[r].pc = "idle"
    /\ req'[r].pc = "notify"
    /\ req'[r].key = SymbolKey(f, FileLock)
    /\ \/ last'.op = "release"
       \/ last'.op = "UnlockSymbol" /\ locks[SymbolKey(f, FileLock)] = SymbolKey(f, FileLock)

\* C31: is_locked(f) is true right after a file-level acquire on f that
\* succeeded, and false right after release(f) has returned or the guard of
\* f has been dropped
C31_IsLocked ==
    /\ []((last.op = "LockSymbol" /\ last.symbol[2] = FileLock /\ last.result # "Blocked")
            => is_locked(locks, last.symbol[1]))
    /\ [][\A r \in ReqIds : \A f \in Files :
             FileReleased(r, f) => ~is_locked(locks', f)]_vars

\* the keys recorded under primary p
HeldUnder(table, p) == {k \in Keys : table[k] = p}

\* C32: while the last call of the manager is the acquire that request
\* last.by won (so that it has called no release since), no step of another
\* request takes a key of its cone from under its primary
C32_HeldUntilReleased ==
    [][(last.op = "LockSymbol" /\ last.result # "Blocked") =>
          \A r \in ReqIds \ {last.by} :
             req'[r] # req[r] => HeldUnder(locks, last.symbol) \subseteq HeldUnder(locks', last.symbol)]_vars

\* request r holds an entry of the lock table on a key of file f
\* that it acquired and has not released, whoever else acquired it as well
HoldsEntryFor(r, f) ==
    /\ req[r].span = "open"
    /\ \E k \in req[r].cone : k[1] = f /\ locks[k] # NoKey

\* C33: a step of a request that changes the contents of a file is taken
\* while that request holds at least one entry of the lock table for the file
C33_WritesUnderLock ==
    [][\A f \in Files : disk'[f] # disk[f] =>
          \E r \in ReqIds : req'[r] # req[r] /\ HoldsEntryFor(r, f)]_vars

\* the names of the live symbols of the graph that overlap the range of r
OverlappingNow(r) ==
    LET now == symbols_in_range(g, req[r].file, req[r].start_line, req[r].end_line)
    IN  {g.nodes[now[i]].name : i \in DOMAIN now}

\* C34: while a range write takes its locks under the graph read lock, the
\* symbols it is locking are the live symbols that overlap its range in the
\* graph as it is then
C34_LocksWhatOverlaps ==
    \A r \in ReqIds :
       (req[r].kind = "range" /\ req[r].pc = "lock") => Range(req[r].affected) = OverlappingNow(r)

\* thread r, which has waited, comes back from its acquire with Blocked
ReturnsBlocked(r) ==
    /\ req[r].waited
    /\ req[r].pc \in {"pass", "asleep"}
    /\ req'[r].pc = "idle"
    /\ last'.op = "LockSymbol" /\ last'.by = r /\ last'.result = "Blocked"

\* C35: a waiting acquire comes back with Blocked only when, in the table as
\* it is after its last wait, a member of its cone is recorded under another
\* primary, and the blocker it reports is that primary
C35_BlockedAfterRecheck ==
    [][\A r \in ReqIds :
          ReturnsBlocked(r) => /\ Attempt(r).result.kind = "Blocked"
                               /\ last'.blocked_by = Attempt(r).result.blocked_by]_vars

(***************************************************************************)
(* The daemon with its two kinds of waiting side by side: thread 1 serves  *)
(* one write request of b.rs through with_file_lock, the other threads     *)
(* serve LockSymbol, UnlockSymbol and release for ever.  A lock that an    *)
(* earlier LockSymbol left behind may be in the table from the start.      *)
(***************************************************************************)
IsWrite(r) == "kind" \in DOMAIN req[r]

Writers == {r \in ReqIds : IsWrite(r)}

LockClients == {r \in ReqIds : ~IsWrite(r)}

\* the table after LockSymbol(a.rs, foo) on the graph of ManagerDisk
LeftBehind ==
    LET G == NormalizeBorn(build_from_extractions(EmptyGraph,
                 <<extract_file("a.rs", ManagerDisk["a.rs"]),
                   extract_file("b.rs", ManagerDisk["b.rs"])>>))
        key == SymbolKey("a.rs", "foo")
    IN  {try_acquire_symbol(NoLocks, key, deps).locks : deps \in get_symbol_dependents(key, G)}

ServeInit ==
    /\ disk = ManagerDisk
    /\ g = NormalizeBorn(build_from_extractions(EmptyGraph,
               <<extract_file("a.rs", ManagerDisk["a.rs"]),
                 extract_file("b.rs", ManagerDisk["b.rs"])>>))
    /\ prev = EmptyGraph
    /\ last = [op |-> "serve"]
    /\ ops = 0
    /\ locks \in {NoLocks} \cup LeftBehind
    /\ rw = {}
    /\ hist = [server |-> "daemon", owner |-> [k \in Keys |-> 0],
               cones |-> [k \in Keys |-> {}], event |-> [kind |-> "none"]]
    /\ \E first \in {q \in Requests("daemon") : q.file = "b.rs" /\ q.content.items[1].body = "v1"} :
          req = [r \in ReqIds |-> IF r = 1 THEN first ELSE IdleThread]

ServeNext ==
    \/ \E r \in Writers : DRead(r)
    \/ \E r \in Writers : DAcquire(r)
    \/ \E r \in Writers : DWait(r)
    \/ \E r \in Writers : DTimeout(r)
    \/ \E r \in Writers : DWrite(r)
    \/ \E r \in Writers : DRelease(r)
    \/ \E r \in Writers : DRebuild(r)
    \/ \E r \in LockClients : LRead(r)
    \/ \E r \in LockClients : LAcquire(r)
    \/ \E r \in LockClients : LSleep(r)
    \/ \E r \in LockClients : LExpired(r)
    \/ \E r \in LockClients : LTimeout(r)
    \/ \E r \in LockClients : URemove(r)
    \/ \E r \in LockClients : FRemove(r)
    \/ \E r \in LockClients : Notify(r)
    \/ \E r \in LockClients : Spurious(r)

SpecServe == ServeInit /\ [][ServeNext]_vars

\* Every thread runs.  The clock runs: a waiter whose time is up is told so
\* at its wait or at its next pass, however often it is woken in between.
\* The graph lock is handed to a waiting writer once the readers are gone.
\* Nothing is assumed of what the clients send, nor of spurious wake-ups.
ServeFairness ==
    /\ \A r \in {1} :
          /\ WF_vars(DRead(r) \/ DAcquire(r) \/ DWait(r) \/ DWrite(r) \/ DRelease(r))
          /\ WF_vars(DTimeout(r))
          /\ SF_vars(DRebuild(r))
    /\ \A r \in ReqIds \ {1} :
          /\ WF_vars(LAcquire(r) \/ LSleep(r))
          /\ WF_vars(Notify(r))
          /\ SF_vars(LTimeout(r) \/ LExpired(r))

SpecServeFair == SpecServe /\ ServeFairness

\* thread r is at work on a request
Busy(r) == req[r].pc \notin {"idle", "done"}

LiveSymbolBag(G, file) ==
    LET Mine(n) == /\ ~n.removed
                   /\ n.kind \notin {"File", "Import"}
                   /\ n.file_path = file
        ns == SeqFilter(Mine, G.nodes)
    IN  BagOf([i \in DOMAIN ns |->
                  <<ns[i].name, ns[i].code_snippet, ns[i].line_start, ns[i].line_end>>])

ExtractedBag(E) ==
    BagOf([i \in DOMAIN E.symbols |->
              <<E.symbols[i].name, E.symbols[i].code_snippet,
                E.symbols[i].line_start, E.symbols[i].line_end>>])

\* C37: after update_file_incremental(f, E) the live symbols of f, imports
\* aside, are the symbols of E one for one, with E's snippets and lines
C37_UpdateMatchesExtraction ==
    last.op = "update" => LiveSymbolBag(g, last.file) = ExtractedBag(last.extraction)

\* the step applies to file f the extraction that the step before applied
SameUpdateAgain ==
    /\ last.op = "update"
    /\ last'.op = "update"
    /\ last'.file = last.file
    /\ last'.extraction = last.extraction
    /\ ops' = ops + 1

\* the results of the queries and of stats on G
ReadsOf(G) ==
    [stats |-> stats(G),
     search |-> [name \in AllNames |-> SearchBag(G, name)],
     dependents |-> [name \in AllNames |-> BagOf(dependents(G, name))],
     dependencies |-> [name \in AllNames |-> BagOf(dependencies(G, name))],
     in_file |-> [f \in Files |-> SymbolsInFileBag(G, f)]]

\* C38: update_file_incremental(f, E) applied a second time in a row leaves
\* every query result and every field of stats as the first left them, and
\* adds no Imports or Contains edge between live nodes that had one
C38_UpdateIdempotent ==
    [][SameUpdateAgain =>
          /\ ReadsOf(g') = ReadsOf(g)
          /\ \A a, b \in LiveNodes(g) \cap LiveNodes(g') : \A k \in {"Imports", "Contains"} :
                EdgeCount(g, a, b, k) >= 1 => EdgeCount(g', a, b, k) = EdgeCount(g, a, b, k)]_vars

(***************************************************************************)
(* Incremental updates over several files beside the sources they come     *)
(* from: disk keeps, for every file, whether it is there and the source    *)
(* its latest extraction was read from.                                    *)
(***************************************************************************)
NoSource == [items |-> <<>>, import |-> 0, api |-> 0]

\* sources in which no two functions share a name
TrackedSources(file) ==
    {src \in SourcesOf(file) :
        \A i, j \in DOMAIN src.items : src.items[i].name = src.items[j].name => i = j}

TrackInit ==
    /\ g = EmptyGraph
    /\ prev = EmptyGraph
    /\ last = [op |-> "new"]
    /\ locks = Idle.locks
    /\ rw = Idle.rw
    /\ req = Idle.req
    /\ hist = Idle.hist
    /\ ops = 0
    /\ disk = [f \in Files |-> [live |-> FALSE, src |-> NoSource]]

\* the file is edited and update_file_incremental is given its extraction
TrackUpdate ==
    /\ ops < MaxOps
    /\ \E file \in Files :
       \E src \in TrackedSources(file) :
       LET E == extract_file(file, src) IN
       \E order \in Orders(NamesOf(E.symbols)) :
          /\ g' = NormalizeBorn(update_file_incremental(g, file, E, order))
          /\ disk' = [disk EXCEPT ![file] = [live |-> TRUE, src |-> src]]
          /\ last' = [op |-> "update", file |-> file, extraction |-> E]
    /\ prev' = g
    /\ ops' = ops + 1
    /\ UNCHANGED <<locks, rw, req, hist>>

\* the file is deleted and remove_file is called
TrackRemove ==
    /\ ops < MaxOps
    /\ \E path \in Files :
          /\ g' = NormalizeBorn(remove_file(g, path))
          /\ disk' = [disk EXCEPT ![path] = [live |-> FALSE, src |-> NoSource]]
          /\ last' = [op |-> "remove", file |-> path]
    /\ prev' = g
    /\ ops' = ops + 1
    /\ UNCHANGED <<locks, rw, req, hist>>

TrackNext == TrackUpdate \/ TrackRemove

SpecTrack == TrackInit /\ [][TrackNext]_vars

\* the graphs a full build makes of the files that are there
FullBuilds ==
    LET live == {f \in Files : disk[f].live}
    IN  {build_from_extractions(EmptyGraph,
             [i \in DOMAIN order |-> extract_file(order[i], disk[order[i]].src)]) :
         order \in Orders(live)}

CallsOnly(deps) ==
    LET IsCall(d) == d.relationship = "Calls"
    IN  BagOf(SeqFilter(IsCall, deps))

AgreeOnCalls(G1, G2) ==
    \A n \in AllNames :
       /\ CallsOnly(dependents(G1, n)) = CallsOnly(dependents(G2, n))
       /\ CallsOnly(dependencies(G1, n)) = CallsOnly(dependencies(G2, n))

\* C39: after any sequence of update_file_incremental and remove_file calls
\* the callers and callees that dependents and dependencies report are those
\* of a graph built from the latest extraction of every file that is there
C39_IncrementalTracksBuild ==
    last.op \in {"update", "remove"} => \E B \in FullBuilds : AgreeOnCalls(g, B)

(***************************************************************************)
(* Graph-aware search (query.rs, search_graph).                            *)
(***************************************************************************)
MAX_INITIAL_MATCHES == 10
MAX_SYMBOLS == 50
MAX_CONNECTIONS == 100
MaxDepth == 2

\* what a caller may ask for: a file path or a symbol name
GraphQueries == Files \cup AllNames

\* path.to_lowercase().contains(query): no name of AllNames is part of a
\* path of Files and no path is part of another, so at most one key of
\* file_index matches and the map's order does not show
PathContains(path, query) == path = query

\* name == query || name.starts_with(query): no name of AllNames starts
\* another, so at most one key of symbol_index matches
NameStartsWith(name, query) == name = query

SymbolInfo(G, n) ==
    [name |-> G.nodes[n].name, kind |-> G.nodes[n].kind, file |-> G.nodes[n].file_path,
     line |-> G.nodes[n].line_start, code |-> G.nodes[n].code_snippet]

ConnectionInfo(from, to, relationship) ==
    [from |-> from, to |-> to, relationship |-> relationship]

\* for edge in edges_directed(idx, dir): mark each new live neighbour
\* visited, queue it one level deeper and record the edge unless the
\* neighbour is a File node; stop at MAX_CONNECTIONS
visit_edges(G, idx, dir, st, current_depth) ==
    LET Step(a, e) ==
            LET other == IF dir = "Outgoing" THEN G.edges[e].target ELSE G.edges[e].source
                conn == IF dir = "Outgoing"
                        THEN ConnectionInfo(G.nodes[idx].name, G.nodes[other].name,
                                            G.edges[e].kind)
                        ELSE ConnectionInfo(G.nodes[other].name, G.nodes[idx].name,
                                            G.edges[e].kind)
            IN  IF Len(a.connections) >= MAX_CONNECTIONS THEN a
                ELSE IF is_live(G, other) /\ other \notin a.visited
                THEN [a EXCEPT !.visited = @ \cup {other},
                               !.queue = Append(@, <<other, current_depth + 1>>),
                               !.connections = IF G.nodes[other].kind # "File"
                                               THEN Append(@, conn) ELSE @]
                ELSE a
    IN  FoldSeq(Step, st, edges_directed(G, idx, dir))

\* 1. the live files whose path matches
file_matches(G, query) ==
    LET Hit(path) == /\ G.file_index[path] # None
                     /\ is_live(G, G.file_index[path])
                     /\ PathContains(path, query)
    IN  Take(SeqFilter(Hit, SetToSeq(Files)), MAX_INITIAL_MATCHES)

\* the live symbols the matched files define, up to MAX_SYMBOLS
defined_symbols(G, matches) ==
    LET PerFile(acc, path) ==
            LET PerEdge(a, e) ==
                    IF Len(a) >= MAX_SYMBOLS THEN a
                    ELSE IF G.edges[e].kind = "Defines" /\ is_live(G, G.edges[e].target)
                    THEN Append(a, G.edges[e].target) ELSE a
            IN  IF Len(acc) >= MAX_SYMBOLS THEN acc
                ELSE FoldSeq(PerEdge, acc,
                             edges_directed(G, G.file_index[path], "Outgoing"))
    IN  FoldSeq(PerFile, <<>>, matches)

\* the file branch: the symbols of the matched files and, if depth > 0, the
\* edges from each of them to a neighbour not seen before (the queue that
\* visit_edges fills is not read here)
search_graph_file(G, matches, depth) ==
    LET symbol_indexes == defined_symbols(G, matches)
        PerSymbol(a, idx) ==
            IF Len(a.connections) >= MAX_CONNECTIONS THEN a
            ELSE visit_edges(G, idx, "Incoming", visit_edges(G, idx, "Outgoing", a, 0), 0)
        walked == FoldSeq(PerSymbol,
                          [visited |-> Range(symbol_indexes), queue |-> <<>>,
                           connections |-> <<>>],
                          symbol_indexes)
        symbols == [i \in DOMAIN symbol_indexes |-> SymbolInfo(G, symbol_indexes[i])]
        connections == IF depth > 0 THEN walked.connections ELSE <<>>
    IN  [match_type |-> "file", matched_files |-> matches, symbols |-> symbols,
         connections |-> connections,
         truncated |-> (Len(symbols) >= MAX_SYMBOLS
                        \/ Len(connections) >= MAX_CONNECTIONS)]

\* 2. the live nodes whose name is the query or starts with it
symbol_matches(G, query) ==
    LET Scan(acc, name) ==
            IF NameStartsWith(name, query) THEN acc \o G.symbol_index[name] ELSE acc
        Live(idx) == is_live(G, idx)
    IN  Take(SeqFilter(Live, FoldSeq(Scan, <<>>, SetToSeq(AllNames))),
             MAX_INITIAL_MATCHES)

\* 3. while let Some((idx, current_depth)) = queue.pop_front()
RECURSIVE bfs(_, _, _)
bfs(G, depth, st) ==
    IF st.queue = <<>> THEN st
    ELSE IF /\ Len(st.symbols) >= MAX_SYMBOLS
            /\ Len(st.connections) >= MAX_CONNECTIONS THEN st
    ELSE LET idx == Head(st.queue)[1]
             current_depth == Head(st.queue)[2]
             popped == [st EXCEPT !.queue = Tail(@)]
             emitted == IF G.nodes[idx].kind # "File" /\ Len(st.symbols) < MAX_SYMBOLS
                        THEN [popped EXCEPT !.symbols = Append(@, SymbolInfo(G, idx))]
                        ELSE popped
             expanded == IF /\ current_depth < depth
                            /\ Len(emitted.connections) < MAX_CONNECTIONS
                         THEN visit_edges(G, idx, "Incoming",
                                  visit_edges(G, idx, "Outgoing", emitted, current_depth),
                                  current_depth)
                         ELSE emitted
         IN  bfs(G, depth, expanded)

search_graph_symbol(G, matches, depth) ==
    LET done == bfs(G, depth,
                    [visited |-> Range(matches),
                     queue |-> [i \in DOMAIN matches |-> <<matches[i], 0>>],
                     symbols |-> <<>>, connections |-> <<>>])
    IN  [match_type |-> "symbol", matched_files |-> <<>>, symbols |-> done.symbols,
         connections |-> done.connections,
         truncated |-> (Len(done.symbols) >= MAX_SYMBOLS
                        \/ Len(done.connections) >= MAX_CONNECTIONS)]

search_graph(G, query, depth) ==
    IF file_matches(G, query) # <<>>
    THEN search_graph_file(G, file_matches(G, query), depth)
    ELSE IF symbol_matches(G, query) = <<>>
    THEN [match_type |-> "none", matched_files |-> <<>>, symbols |-> <<>>,
          connections |-> <<>>, truncated |-> FALSE]
    ELSE search_graph_symbol(G, symbol_matches(G, query), depth)

\* the symbols the traversal starts from
InitialSymbols(G, query) ==
    IF file_matches(G, query) # <<>>
    THEN Range(defined_symbols(G, file_matches(G, query)))
    ELSE Range(symbol_matches(G, query))

\* the live nodes an edge joins to a node of S, in either direction
Neighbours(G, S) ==
    {n \in LiveNodes(G) :
        \E e \in DOMAIN G.edges :
           \/ G.edges[e].source \in S /\ G.edges[e].target = n
           \/ G.edges[e].target \in S /\ G.edges[e].source = n}

\* the live nodes within depth edges of a node of S
RECURSIVE WithinDepth(_, _, _)
WithinDepth(G, S, depth) ==
    IF depth = 0 THEN S ELSE WithinDepth(G, S \cup Neighbours(G, S), depth - 1)

CapReached(r) ==
    Len(r.symbols) >= MAX_SYMBOLS \/ Len(r.connections) >= MAX_CONNECTIONS

\* C40: search_graph walks breadth-first to the requested depth in the file
\* branch and in the symbol branch: when no cap is reached, every live
\* non-File node within depth edges of an initial symbol is in symbols; the
\* result has at most 50 symbols and at most 100 connections, and truncated
\* is set exactly when a cap is reached
C40_SearchGraphReach ==
    \A query \in GraphQueries : \A depth \in 0..MaxDepth :
       LET r == search_graph(g, query, depth) IN
       /\ ~CapReached(r) =>
             \A n \in WithinDepth(g, InitialSymbols(g, query), depth) :
                g.nodes[n].kind # "File" => SymbolInfo(g, n) \in Range(r.symbols)
       /\ Len(r.symbols) <= MAX_SYMBOLS
       /\ Len(r.connections) <= MAX_CONNECTIONS
       /\ r.truncated <=> CapReached(r)

====
